---- MODULE Spec2Model ----
(***************************************************************************)
(* portr: which process owns a listening port, and how it is terminated.   *)
(*                                                                         *)
(* The module models, component by component,                              *)
(*   - the port correlator        (src/src/port.rs, get_listening_ports)   *)
(*   - the parent walk            (src/src/port.rs, get_process_tree)      *)
(*   - the termination executor   (src/src/process.rs, kill_process)       *)
(*   - the service classifier     (src/src/services.rs)                    *)
(*   - the container identity     (src/src/docker.rs, ContainerInfo)       *)
(*   - the address parsers        (src/src/port.rs, parse_address)         *)
(*   - the connection enumerator  (src/src/port.rs,                        *)
(*                                 get_network_connections)                *)
(*   - the CLI kill flow          (src/src/main.rs, cmd_kill)              *)
(*   - the kill command           (src/src/main.rs, run and main)          *)
(*   - the port arguments         (src/src/main.rs, run and cmd_range;     *)
(*                                 src/src/config.rs, aliases)             *)
(*   - the container lookup       (src/src/docker.rs,                      *)
(*                                 get_container_for_port)                 *)
(*   - the interactive mode       (src/src/interactive.rs)                 *)
(*   - the dashboard              (src/src/tui/app.rs, App)                *)
(* Each component has its own specification (SpecPorts, SpecTree, ...);    *)
(* the variables of the other components stay at their idle values.        *)
(***************************************************************************)
EXTENDS Integers, Sequences, FiniteSets, TLC

VARIABLES
    \* ---- port correlator
    sys,            \* the process table snapshot (sysinfo::System): pid -> process or None
    connections,    \* what get_network_connections returned: Ok(rows) or Err
    ports_result,   \* what get_listening_ports returned (None: not called yet)
    port_arg,       \* the port given to get_port_info
    port_info_result, \* what get_port_info returned (None: not called yet)
    \* ---- parent walk (get_process_tree)
    tree_pid,       \* the argument pid
    tree,           \* the Vec<(u32, String)> being built
    current_pid,    \* Option<Pid>
    tree_pc,        \* "idle" | "loop" | "done"
    \* ---- termination executor
    platform,       \* "unix" | "windows": fixed at build time (cfg)
    kill_calls,     \* the calls made to kill_process, in order: [pid, force, os]
    os_requests,    \* the termination requests the OS received, in order
    kill_results,   \* the value each call returned, in order
    \* ---- service classifier
    svc_port,       \* the port being classified
    svc_lookup,     \* lookup(svc_port), once computed
    svc_confirm,    \* requires_confirmation(svc_port), once computed
    svc_pc,         \* "idle" | "input" | "done"
    \* ---- container identity
    ca, cb, cc,     \* three ContainerInfo values
    match_res,      \* the results of matches over them, once computed
    dock_pc,        \* "idle" | "input" | "done"
    \* ---- address parsing
    addr_in,        \* the address text given to the parser, with what it was built from
    addr_result,    \* what the parser returned for it, once computed
    addr_pc,        \* "idle" | "input" | "done"
    \* ---- connection enumerator (get_network_connections)
    target_os,      \* "linux" | "windows" | "macos": fixed at build time (cfg)
    tool_tcp,       \* the run of the listing tool for TCP: started?, exit status, stdout lines
    tool_udp,       \* the run of the listing tool for UDP
    enum_result,    \* what get_network_connections returned (None: not called yet)
    \* ---- CLI kill flow (cmd_kill)
    flow_in,        \* the arguments and what the environment answers during the call
    flow_log,       \* the calls the flow made to the outside, in order
    flow_result,    \* what cmd_kill returned (None: not called yet)
    flow_pc,        \* "idle" | "input" | "done"
    \* ---- CLI dispatch of the kill command (run, main)
    run_in,         \* the parsed command line and configuration: ports, force, confirm, ...
    effective_force, \* the local of run: force || !confirm
    run_idx,        \* the position of the kill loop in the ports (1-based)
    run_log,        \* per port handled so far: what cmd_kill was given, did and returned
    run_result,     \* what run returned (None: it has not returned)
    exit_code,      \* the ExitCode main ended with (None: main has not ended)
    run_pc,         \* "idle" | "start" | "loop" | "returned" | "panicked" | "exited"
    \* ---- direct port arguments (run)
    args_in,        \* the port arguments and the aliases of the configuration
    args_result,    \* what run made of them, once computed
    \* ---- container lookup (get_container_for_port)
    look_in,        \* the port, and what the container runtime does during the call
    look_result,    \* what the lookup returned and what cmd_kill then did
    \* ---- interactive mode (InteractiveApp)
    iapp,           \* the InteractiveApp: ports, selected, filter, filtered_indices, ...
    ia_pc,          \* "idle" | "keys" (main_loop) | "filter" (enter_filter_mode) | "quit" | "failed"
    \* ---- dashboard (tui::App)
    app,            \* the App: all_ports, ports, selected, filter and sort settings, ...
    tui_last        \* the last operation: its name, the App before it, the calls it made

portVars == <<sys, connections, ports_result, port_arg, port_info_result>>
treeVars == <<tree_pid, tree, current_pid, tree_pc>>
killVars == <<platform, kill_calls, os_requests, kill_results>>
svcVars  == <<svc_port, svc_lookup, svc_confirm, svc_pc>>
dockVars == <<ca, cb, cc, match_res, dock_pc>>
addrVars == <<addr_in, addr_result, addr_pc>>
enumVars == <<target_os, tool_tcp, tool_udp, enum_result>>
flowVars == <<flow_in, flow_log, flow_result, flow_pc>>
runVars  == <<run_in, effective_force, run_idx, run_log, run_result, exit_code, run_pc>>
argsVars == <<args_in, args_result>>
lookVars == <<look_in, look_result>>
iaVars   == <<iapp, ia_pc>>
tuiVars  == <<app, tui_last>>
vars == <<portVars, treeVars, killVars, svcVars, dockVars, addrVars, enumVars, flowVars,
          runVars, argsVars, lookVars, iaVars, tuiVars>>

\* Option::None, and the two shapes of a Result
None == [none |-> TRUE]
Some(x) == [some |-> x]
Ok(x) == [ok |-> TRUE, val |-> x]
Err(kind, payload) == [ok |-> FALSE, err |-> kind, payload |-> payload]

(***************************************************************************)
(* Idle values: a component that a specification does not exercise.        *)
(***************************************************************************)
PortsIdle ==
    /\ sys = <<>>
    /\ connections = None
    /\ ports_result = None
    /\ port_arg = 0
    /\ port_info_result = None
TreeIdle == tree_pid = 0 /\ tree = <<>> /\ current_pid = None /\ tree_pc = "idle"
KillIdle ==
    /\ platform = "unix"
    /\ kill_calls = <<>>
    /\ os_requests = <<>>
    /\ kill_results = <<>>
SvcIdle == svc_port = 0 /\ svc_lookup = None /\ svc_confirm = FALSE /\ svc_pc = "idle"
DockIdle == ca = None /\ cb = None /\ cc = None /\ match_res = None /\ dock_pc = "idle"
AddrIdle == addr_in = None /\ addr_result = None /\ addr_pc = "idle"
EnumIdle ==
    /\ target_os = "linux"
    /\ tool_tcp = None
    /\ tool_udp = None
    /\ enum_result = None
FlowIdle == flow_in = None /\ flow_log = <<>> /\ flow_result = None /\ flow_pc = "idle"
RunIdle ==
    /\ run_in = None
    /\ effective_force = FALSE
    /\ run_idx = 0
    /\ run_log = <<>>
    /\ run_result = None
    /\ exit_code = None
    /\ run_pc = "idle"
ArgsIdle == args_in = None /\ args_result = None
LookIdle == look_in = None /\ look_result = None
IaIdle == iapp = None /\ ia_pc = "idle"
TuiIdle == app = None /\ tui_last = None

(***************************************************************************)
(* Port correlator: src/src/port.rs                                        *)
(***************************************************************************)

\* Bound: the number of rows the enumerator reports in one snapshot.
MaxConns == 3

\* The local ports, the pids and the local address the sample rows use.
PortSamples == {3000, 8080}
PidSamples == {101, 102}
PidUniverse == {1, 101, 102}
MiB == 1048576

\* struct NetConnection, as the Linux backend fills it (no remote end).
NetConnection(protocol, port, pid) ==
    [protocol |-> protocol,
     local_addr |-> "0.0.0.0",
     local_port |-> port,
     remote_addr |-> None,
     remote_port |-> None,
     state |-> IF protocol = "TCP" THEN "LISTEN" ELSE "*",
     pid |-> pid]

RowsOf(protocol) ==
    {NetConnection(protocol, p, q) :
        p \in PortSamples, q \in {None} \cup {Some(x) : x \in PidSamples}}

\* The enumerator appends every TCP row, then every UDP row: the tables of
\* n rows, k of them TCP.
TablesOf(n, k) ==
    {t \o u : t \in [1..k -> RowsOf("TCP")], u \in [1..(n - k) -> RowsOf("UDP")]}

ConnectionTables ==
    UNION {UNION {TablesOf(n, k) : k \in 0..n} : n \in 0..MaxConns}

\* A process of the table: what sysinfo reports for it.
Process(name, parent, mem) ==
    [name |-> name, exe |-> Some("/usr/bin/" \o name), user_id |-> Some(1000),
     memory |-> mem, cpu_usage |-> 1, run_time |-> 60, parent |-> parent]

\* Sample process tables: every owner alive; one owner vanished and the other's
\* parent not in the table; no owner alive.
ProcTables ==
    { (1 :> Process("init", None, MiB)
        @@ 101 :> Process("node", Some(1), 64 * MiB)
        @@ 102 :> Process("python", Some(101), 32 * MiB)),
      (1 :> None
        @@ 101 :> Process("node", Some(1), 64 * MiB)
        @@ 102 :> None),
      (1 :> None @@ 101 :> None @@ 102 :> None) }

\* sys.process(pid)
process(s, pid) == IF pid \in DOMAIN s THEN s[pid] ELSE None

\* get_process_info with the parent of the asking process's table row kept for a
\* vanished process: the sentinel carries pid 1 as its parent.
get_process_info_parent_kept(s, pid) ==
    LET p == process(s, pid) IN
    IF p # None
    THEN LET par == IF p.parent # None /\ process(s, p.parent.some) # None
                    THEN p.parent ELSE None
         IN [name |-> p.name,
             path |-> p.exe,
             user |-> IF p.user_id = None THEN None ELSE Some(<<"Uid", p.user_id.some>>),
             memory_mb |-> p.memory \div MiB,
             cpu_percent |-> p.cpu_usage,
             uptime_secs |-> p.run_time,
             parent_pid |-> par,
             parent_name |-> IF par # None THEN Some(process(s, par.some).name) ELSE None]
    ELSE [name |-> "<unknown>",
          path |-> None,
          user |-> None,
          memory_mb |-> 0,
          cpu_percent |-> 0,
          uptime_secs |-> 0,
          parent_pid |-> Some(1),
          parent_name |-> None]

\* get_process_info(sys, pid): never fails; the sentinel for a vanished process.
\* The user is the Debug text of the uid; memory is bytes / 1024 / 1024 (the
\* sample processes hold whole MiB, so the quotient is exact).
get_process_info(s, pid) ==
    LET p == process(s, pid) IN
    IF p # None
    THEN LET par == IF p.parent # None /\ process(s, p.parent.some) # None
                    THEN p.parent ELSE None
         IN [name |-> p.name,
             path |-> p.exe,
             user |-> IF p.user_id = None THEN None ELSE Some(<<"Uid", p.user_id.some>>),
             memory_mb |-> p.memory \div MiB,
             cpu_percent |-> p.cpu_usage,
             uptime_secs |-> p.run_time,
             parent_pid |-> par,
             parent_name |-> IF par # None THEN Some(process(s, par.some).name) ELSE None]
    ELSE [name |-> "<unknown>",
          path |-> None,
          user |-> None,
          memory_mb |-> 0,
          cpu_percent |-> 0,
          uptime_secs |-> 0,
          parent_pid |-> None,
          parent_name |-> None]

\* format!("{}:{}", addr, port)
FormatAddr(addr, port) == <<addr, port>>

\* The PortInfo pushed for a row whose pid is known.
MakePortInfo(s, conn) ==
    LET pid == conn.pid.some
        info == get_process_info(s, pid)
    IN [port |-> conn.local_port,
        protocol |-> conn.protocol,
        pid |-> pid,
        process_name |-> info.name,
        process_path |-> info.path,
        local_address |-> FormatAddr(conn.local_addr, conn.local_port),
        remote_address |->
            IF conn.remote_addr = None THEN None
            ELSE Some(FormatAddr(conn.remote_addr.some,
                        IF conn.remote_port = None THEN 0 ELSE conn.remote_port.some)),
        state |-> conn.state,
        user |-> info.user,
        memory_mb |-> info.memory_mb,
        cpu_percent |-> info.cpu_percent,
        uptime_secs |-> info.uptime_secs,
        parent_pid |-> info.parent_pid,
        parent_name |-> info.parent_name]

\* collect with the loop left at the first row without a pid (break for skip).
RECURSIVE collect_break(_, _)
collect_break(s, conns) ==
    IF conns = <<>> THEN <<>>
    ELSE IF Head(conns).pid # None
         THEN <<MakePortInfo(s, Head(conns))>> \o collect_break(s, Tail(conns))
         ELSE <<>>

\* The loop over the rows: one PortInfo per row with a known pid, in row order.
RECURSIVE collect(_, _)
collect(s, conns) ==
    IF conns = <<>> THEN <<>>
    ELSE LET rest == collect(s, Tail(conns)) IN
         IF Head(conns).pid # None
         THEN <<MakePortInfo(s, Head(conns))>> \o rest
         ELSE rest

\* insert_stable with < for <=: equal ports change places (an unstable sort).
RECURSIVE insert_unstable(_, _)
insert_unstable(x, sorted) ==
    IF sorted = <<>> THEN <<x>>
    ELSE IF Head(sorted).port < x.port
         THEN <<Head(sorted)>> \o insert_unstable(x, Tail(sorted))
         ELSE <<x>> \o sorted

\* Insert x after every element whose port is <= x.port (a stable insertion).
RECURSIVE insert_stable(_, _)
insert_stable(x, sorted) ==
    IF sorted = <<>> THEN <<x>>
    ELSE IF Head(sorted).port <= x.port
         THEN <<Head(sorted)>> \o insert_stable(x, Tail(sorted))
         ELSE <<x>> \o sorted

\* results.sort_by_key(|p| p.port): a stable sort, ascending by port.
RECURSIVE sort_by_key(_)
sort_by_key(results) ==
    IF results = <<>> THEN <<>>
    ELSE insert_stable(results[Len(results)],
                       sort_by_key(SubSeq(results, 1, Len(results) - 1)))

\* results.retain(|p| seen.insert(p.port)): keep the first entry of each port.
RECURSIVE retain_loop(_, _)
retain_loop(results, seen) ==
    IF results = <<>> THEN <<>>
    ELSE IF Head(results).port \in seen
         THEN retain_loop(Tail(results), seen)
         ELSE <<Head(results)>> \o retain_loop(Tail(results), seen \cup {Head(results).port})

\* retain_first without the deduplication.
retain_all(results) == results

retain_first(results) == retain_loop(results, {})

\* get_listening_ports(): the enumeration's error is passed on (the ? operator).
get_listening_ports(s, enumerated) ==
    IF ~enumerated.ok THEN enumerated
    ELSE Ok(retain_first(sort_by_key(collect(s, enumerated.val))))

\* get_port_info with the first entry of port or above taken for the entry of port.
get_port_info_at_least(s, enumerated, port) ==
    LET listed == get_listening_ports(s, enumerated) IN
    IF ~listed.ok THEN listed
    ELSE LET hits == SelectSeq(listed.val, LAMBDA e : e.port >= port) IN
         Ok(IF hits = <<>> THEN None ELSE Some(Head(hits)))

\* get_port_info(port): get_listening_ports()?, then the first entry of the port.
get_port_info(s, enumerated, port) ==
    LET listed == get_listening_ports(s, enumerated) IN
    IF ~listed.ok THEN listed
    ELSE LET hits == SelectSeq(listed.val, LAMBDA e : e.port = port) IN
         Ok(IF hits = <<>> THEN None ELSE Some(Head(hits)))

\* The ports asked for: those of the sample rows, and one no row has.
PortArgs == PortSamples \cup {9000}

InitPorts ==
    /\ sys \in ProcTables
    /\ connections \in {Err("NetworkError", "ss")} \cup {Ok(t) : t \in ConnectionTables}
    /\ ports_result = None
    /\ port_arg = 0
    /\ port_info_result = None
    /\ TreeIdle /\ KillIdle /\ SvcIdle /\ DockIdle
    /\ AddrIdle /\ EnumIdle /\ FlowIdle
    /\ RunIdle /\ ArgsIdle /\ LookIdle /\ IaIdle /\ TuiIdle

GetListeningPorts ==
    /\ ports_result = None
    /\ ports_result' = get_listening_ports(sys, connections)
    /\ UNCHANGED <<sys, connections, port_arg, port_info_result, treeVars, killVars,
                   svcVars, dockVars, addrVars, enumVars, flowVars,
                   runVars, argsVars, lookVars, iaVars, tuiVars>>

\* get_port_info(port) is called on the same snapshot.
GetPortInfo ==
    /\ port_info_result = None
    /\ \E port \in PortArgs :
        /\ port_arg' = port
        /\ port_info_result' = get_port_info(sys, connections, port)
    /\ UNCHANGED <<sys, connections, ports_result, treeVars, killVars, svcVars, dockVars,
                   addrVars, enumVars, flowVars,
                   runVars, argsVars, lookVars, iaVars, tuiVars>>

NextPorts == GetListeningPorts \/ GetPortInfo

SpecPorts == InitPorts /\ [][NextPorts]_vars

(***************************************************************************)
(* Parent walk: src/src/port.rs, get_process_tree                          *)
(***************************************************************************)

\* The safety limit the loop compares tree.len() with.
TreeLimit == 20

\* Bound: the number of processes of a sample table.
MaxChain == 22

\* A table of the processes 1..n in which i's parent is i + 1 and the parent of
\* n is `last`: None (a root), Some(n + 1) (a parent that is not in the table) or
\* Some(k) with k <= n (a cycle; k = n is a process that is its own parent).
ChainTable(n, last) ==
    [i \in 1..n |-> Process("sh", IF i < n THEN Some(i + 1) ELSE last, MiB)]

ChainTables ==
    UNION {{ChainTable(n, last) : last \in {None} \cup {Some(k) : k \in 1..(n + 1)}} :
                n \in 0..MaxChain}

InitTree ==
    /\ sys \in ChainTables
    /\ connections = None /\ ports_result = None
    /\ port_arg = 0 /\ port_info_result = None
    /\ TreeIdle /\ KillIdle /\ SvcIdle /\ DockIdle
    /\ AddrIdle /\ EnumIdle /\ FlowIdle
    /\ RunIdle /\ ArgsIdle /\ LookIdle /\ IaIdle /\ TuiIdle

\* get_process_tree(pid) is entered: tree = Vec::new(), current_pid = Some(pid).
TreeCall ==
    /\ tree_pc = "idle"
    /\ \E pid \in 1..(Len(sys) + 1) :
        /\ tree_pid' = pid
        /\ current_pid' = Some(pid)
    /\ tree' = <<>>
    /\ tree_pc' = "loop"
    /\ UNCHANGED <<portVars, killVars, svcVars, dockVars, addrVars, enumVars, flowVars,
                   runVars, argsVars, lookVars, iaVars, tuiVars>>

\* One pass of `while let Some(cpid) = current_pid`: the walk as it stands after
\* the pass, and whether the loop goes on.
walk_step(s, t, cur) ==
    IF cur = None
    THEN [tree |-> t, current_pid |-> cur, pc |-> "done"]
    ELSE LET p == process(s, cur.some) IN
         IF p = None
         THEN [tree |-> t, current_pid |-> cur, pc |-> "done"]
         ELSE LET pushed == Append(t, <<cur.some, p.name>>) IN
              [tree |-> pushed,
               current_pid |-> p.parent,
               pc |-> IF Len(pushed) > TreeLimit THEN "done" ELSE "loop"]

TreeStep ==
    /\ tree_pc = "loop"
    /\ LET r == walk_step(sys, tree, current_pid) IN
        /\ tree' = r.tree
        /\ current_pid' = r.current_pid
        /\ tree_pc' = r.pc
    /\ UNCHANGED <<tree_pid, portVars, killVars, svcVars, dockVars, addrVars, enumVars, flowVars,
                   runVars, argsVars, lookVars, iaVars, tuiVars>>

NextTree == TreeCall \/ TreeStep

SpecTree == InitTree /\ [][NextTree]_vars

\* The walk adds an entry in every pass that does not end it, and never holds
\* more than TreeLimit + 1 entries: it ends within TreeLimit + 2 passes.
TreeWalkBounded ==
    /\ Len(tree) <= TreeLimit + 1
    /\ tree_pc = "loop" => Len(tree) <= TreeLimit

\* C4: get_process_tree never returns more than 20 entries, whatever the process
\* table (a cycle, a chain longer than 20), and the walk terminates.
C4_AtMostTwentyEntries == tree_pc = "done" => Len(tree) <= 20

(***************************************************************************)
(* Termination executor: src/src/process.rs                                *)
(***************************************************************************)

\* Bound: the number of kill_process calls of one run.
MaxKills == 2

\* A u32 is held as its two 16-bit halves, since 2^31 and above are not
\* integers TLC can hold; an i32 is an integer.
TwoPow15 == 32768
TwoPow16 == 65536
U32(hi, lo) == [hi |-> hi, lo |-> lo]
u32(n) == U32(n \div TwoPow16, n % TwoPow16)

\* `pid as i32`: the same 32 bits read as two's complement.
as_i32(x) ==
    IF x.hi >= TwoPow15
    THEN (x.hi - TwoPow16) * TwoPow16 + x.lo
    ELSE x.hi * TwoPow16 + x.lo

\* `pid.as_raw() as u32`: the 32 bits of an i32.
as_u32(i) == U32((i \div TwoPow16) % TwoPow16, i % TwoPow16)

\* The pids the calls are made with: 0, an ordinary pid (1234), and the two ends
\* of the range that `as i32` turns negative (2^31 and 2^32 - 1).
KillPids == {u32(0), u32(1234), U32(TwoPow15, 0), U32(TwoPow16 - 1, TwoPow16 - 1)}

\* What the OS answers to kill(2): success or an errno.
UnixOutcomes == {"OK", "EPERM", "ESRCH", "EINVAL"}

\* What happens to `taskkill /F /PID <pid>`: it cannot be started, or it exits with
\* a status and a stderr text, of which only the two phrases looked for matter.
WindowsOutcomes ==
    {[spawned |-> FALSE, success |-> FALSE, stderr |-> {}],
     [spawned |-> TRUE, success |-> TRUE, stderr |-> {}]}
    \cup {[spawned |-> TRUE, success |-> FALSE, stderr |-> e] :
            e \in SUBSET {"Access is denied", "not found"}}

OsOutcomes(plat) == IF plat = "unix" THEN UnixOutcomes ELSE WindowsOutcomes

\* Ok(())
Unit == <<>>

\* kill_unix with the ESRCH arm missing.
kill_unix_no_esrch(pid, force, os) ==
    LET raw == as_i32(pid) IN
    [requests |-> <<[call |-> "kill", target |-> raw,
                     signal |-> IF force THEN "SIGKILL" ELSE "SIGTERM"]>>,
     result |->
        CASE os = "OK" -> Ok(Unit)
          [] os = "EPERM" -> Err("PermissionDenied", <<"Cannot kill process", raw>>)
          [] OTHER -> Err("KillError", <<as_u32(raw), os>>)]

\* kill_unix sending the signal a second time when the first attempt failed.
kill_unix_retry(pid, force, os) ==
    LET raw == as_i32(pid)
        req == [call |-> "kill", target |-> raw,
                signal |-> IF force THEN "SIGKILL" ELSE "SIGTERM"]
    IN
    [requests |-> IF os = "OK" THEN <<req>> ELSE <<req, req>>,
     result |->
        CASE os = "OK" -> Ok(Unit)
          [] os = "EPERM" -> Err("PermissionDenied", <<"Cannot kill process", raw>>)
          [] os = "ESRCH" -> Err("ProcessNotFound", as_u32(raw))
          [] OTHER -> Err("KillError", <<as_u32(raw), os>>)]

\* kill_unix(pid, force): one kill(2) with SIGKILL or SIGTERM, and the errno mapped.
kill_unix(pid, force, os) ==
    LET signal == IF force THEN "SIGKILL" ELSE "SIGTERM"
        raw == as_i32(pid)
    IN
    [requests |-> <<[call |-> "kill", target |-> raw, signal |-> signal]>>,
     result |->
        CASE os = "OK" -> Ok(Unit)
          [] os = "EPERM" -> Err("PermissionDenied", <<"Cannot kill process", raw>>)
          [] os = "ESRCH" -> Err("ProcessNotFound", as_u32(raw))
          [] OTHER -> Err("KillError", <<as_u32(raw), os>>)]

\* kill_windows(pid, _force): one `taskkill /F /PID pid`, and its stderr classified.
kill_windows(pid, force, os) ==
    [requests |-> <<[call |-> "taskkill", target |-> pid, signal |-> "/F"]>>,
     result |->
        IF ~os.spawned THEN Err("KillError", <<pid, "spawn">>)
        ELSE IF os.success THEN Ok(Unit)
        ELSE IF "Access is denied" \in os.stderr
             THEN Err("PermissionDenied", <<"Cannot kill process", pid>>)
        ELSE IF "not found" \in os.stderr
             THEN Err("ProcessNotFound", pid)
        ELSE Err("KillError", <<pid, os.stderr>>)]

\* kill_process(pid, force): the backend the build selected.
kill_process(plat, pid, force, os) ==
    IF plat = "unix" THEN kill_unix(pid, force, os) ELSE kill_windows(pid, force, os)

InitKill ==
    /\ platform \in {"unix", "windows"}
    /\ kill_calls = <<>>
    /\ os_requests = <<>>
    /\ kill_results = <<>>
    /\ PortsIdle /\ TreeIdle /\ SvcIdle /\ DockIdle
    /\ AddrIdle /\ EnumIdle /\ FlowIdle
    /\ RunIdle /\ ArgsIdle /\ LookIdle /\ IaIdle /\ TuiIdle

\* A caller calls kill_process(pid, force); the OS answers with `os`.
KillProcess ==
    /\ Len(kill_calls) < MaxKills
    /\ \E pid \in KillPids, force \in BOOLEAN, os \in OsOutcomes(platform) :
        LET r == kill_process(platform, pid, force, os) IN
        /\ kill_calls' = Append(kill_calls, [pid |-> pid, force |-> force, os |-> os])
        /\ os_requests' = os_requests \o r.requests
        /\ kill_results' = Append(kill_results, r.result)
    /\ UNCHANGED <<platform, portVars, treeVars, svcVars, dockVars, addrVars, enumVars, flowVars,
                   runVars, argsVars, lookVars, iaVars, tuiVars>>

NextKill == KillProcess

SpecKill == InitKill /\ [][NextKill]_vars

(***************************************************************************)
(* Service classifier: src/src/services.rs                                 *)
(***************************************************************************)

\* A port is a u16.
U16Max == 65535

\* enum RiskLevel
RiskLevel == {"Low", "Medium", "High", "Critical"}

\* struct ServiceInfo
ServiceInfo(port, name, description, risk, process_hints) ==
    [port |-> port, name |-> name, description |-> description, risk |-> risk,
     process_hints |-> process_hints]

\* static KNOWN_SERVICES, in the order of the source
KNOWN_SERVICES ==
    <<
       ServiceInfo(80, "HTTP", "Web server (Apache, Nginx, IIS)", "Medium", <<"nginx", "apache", "httpd", "iis">>),
       ServiceInfo(443, "HTTPS", "Secure web server", "Medium", <<"nginx", "apache", "httpd", "iis">>),
       ServiceInfo(8080, "HTTP Alt", "Alternative HTTP / Development server", "Low", <<"java", "node", "python">>),
       ServiceInfo(8443, "HTTPS Alt", "Alternative HTTPS", "Low", <<"java", "node">>),
       ServiceInfo(3306, "MySQL", "MySQL/MariaDB database server", "Critical", <<"mysqld", "mariadbd", "mysql">>),
       ServiceInfo(5432, "PostgreSQL", "PostgreSQL database server", "Critical", <<"postgres", "postgresql">>),
       ServiceInfo(27017, "MongoDB", "MongoDB database server", "Critical", <<"mongod", "mongodb">>),
       ServiceInfo(6379, "Redis", "Redis in-memory data store", "High", <<"redis-server", "redis">>),
       ServiceInfo(9200, "Elasticsearch", "Elasticsearch search engine", "High", <<"elasticsearch", "java">>),
       ServiceInfo(1433, "MSSQL", "Microsoft SQL Server", "Critical", <<"sqlservr", "mssql">>),
       ServiceInfo(1521, "Oracle", "Oracle Database", "Critical", <<"oracle", "tnslsnr">>),
       ServiceInfo(5984, "CouchDB", "Apache CouchDB", "High", <<"couchdb", "beam">>),
       ServiceInfo(7474, "Neo4j", "Neo4j Graph Database", "High", <<"neo4j", "java">>),
       ServiceInfo(5672, "RabbitMQ", "RabbitMQ message broker", "High", <<"rabbitmq", "beam", "erlang">>),
       ServiceInfo(9092, "Kafka", "Apache Kafka message broker", "High", <<"kafka", "java">>),
       ServiceInfo(4222, "NATS", "NATS message broker", "Medium", <<"nats-server", "nats">>),
       ServiceInfo(3000, "Dev Server", "Node.js / React / Rails dev server", "Low", <<"node", "ruby", "rails">>),
       ServiceInfo(4200, "Angular", "Angular development server", "Low", <<"node", "ng">>),
       ServiceInfo(5000, "Flask/ASP.NET", "Flask or ASP.NET development server", "Low", <<"python", "flask", "dotnet">>),
       ServiceInfo(5173, "Vite", "Vite development server", "Low", <<"node", "vite">>),
       ServiceInfo(8000, "Django/PHP", "Django or PHP development server", "Low", <<"python", "django", "php">>),
       ServiceInfo(9000, "PHP-FPM", "PHP FastCGI Process Manager", "Medium", <<"php-fpm", "php">>),
       ServiceInfo(2375, "Docker", "Docker daemon (unencrypted)", "Critical", <<"dockerd", "docker">>),
       ServiceInfo(2376, "Docker TLS", "Docker daemon (TLS)", "Critical", <<"dockerd", "docker">>),
       ServiceInfo(6443, "Kubernetes", "Kubernetes API server", "Critical", <<"kube-apiserver", "k8s">>),
       ServiceInfo(10250, "Kubelet", "Kubernetes Kubelet", "Critical", <<"kubelet">>),
       ServiceInfo(22, "SSH", "Secure Shell server", "Critical", <<"sshd", "ssh">>),
       ServiceInfo(21, "FTP", "FTP server", "Medium", <<"vsftpd", "proftpd", "ftpd">>),
       ServiceInfo(23, "Telnet", "Telnet server (insecure)", "Medium", <<"telnetd">>),
       ServiceInfo(25, "SMTP", "Email server (SMTP)", "High", <<"postfix", "sendmail", "exim">>),
       ServiceInfo(53, "DNS", "Domain Name System", "Critical", <<"named", "bind", "dnsmasq">>),
       ServiceInfo(67, "DHCP", "DHCP server", "Critical", <<"dhcpd", "dnsmasq">>),
       ServiceInfo(123, "NTP", "Network Time Protocol", "High", <<"ntpd", "chronyd">>),
       ServiceInfo(135, "RPC", "Windows RPC Endpoint Mapper", "Critical", <<"svchost">>),
       ServiceInfo(139, "NetBIOS", "Windows NetBIOS Session", "High", <<"smbd", "svchost">>),
       ServiceInfo(445, "SMB", "Windows File Sharing (SMB)", "Critical", <<"smbd", "svchost", "System">>),
       ServiceInfo(3389, "RDP", "Windows Remote Desktop", "Critical", <<"svchost", "TermService">>),
       ServiceInfo(9090, "Prometheus", "Prometheus monitoring", "Medium", <<"prometheus">>),
       ServiceInfo(3100, "Loki", "Grafana Loki log aggregation", "Medium", <<"loki">>),
       ServiceInfo(3001, "Grafana", "Grafana dashboard (alt port)", "Medium", <<"grafana">>),
       ServiceInfo(9093, "Alertmanager", "Prometheus Alertmanager", "Medium", <<"alertmanager">>),
       ServiceInfo(16686, "Jaeger", "Jaeger tracing UI", "Low", <<"jaeger">>),
       ServiceInfo(11434, "Ollama", "Ollama LLM server", "Low", <<"ollama">>),
       ServiceInfo(1234, "LM Studio", "LM Studio local LLM", "Low", <<"lm studio", "lmstudio">>),
       ServiceInfo(8888, "Jupyter", "Jupyter Notebook server", "Low", <<"jupyter", "python">>),
       ServiceInfo(11211, "Memcached", "Memcached cache server", "High", <<"memcached">>),
       ServiceInfo(9418, "Git", "Git protocol daemon", "Medium", <<"git-daemon">>),
       ServiceInfo(8888, "Proxy", "HTTP Proxy server", "Medium", <<"squid", "privoxy">>),
       ServiceInfo(1080, "SOCKS", "SOCKS proxy", "Medium", <<"socks", "dante">>)
    >>

\* table.iter().find(|s| s.port == port): the first entry of the port, if any.
find_port(table, port) ==
    LET hits == {i \in 1..Len(table) : table[i].port = port} IN
    IF hits = {} THEN None
    ELSE Some(table[CHOOSE i \in hits : \A j \in hits : i <= j])

\* find_port giving up at the first entry of a greater port, as if the table
\* were sorted by port.
find_port_sorted(table, port) ==
    LET hits == {i \in 1..Len(table) :
                    /\ table[i].port = port
                    /\ \A j \in 1..(i - 1) : table[j].port < port}
    IN IF hits = {} THEN None
       ELSE Some(table[CHOOSE i \in hits : \A j \in hits : i <= j])

\* lookup that takes the table for sorted.
lookup_sorted(port) == find_port_sorted(KNOWN_SERVICES, port)

\* lookup(port)
lookup(port) == find_port(KNOWN_SERVICES, port)

\* requires_confirmation asking for Critical only.
requires_confirmation_critical(port) ==
    LET s == lookup(port) IN
    IF s = None THEN FALSE ELSE s.some.risk = "Critical"

\* requires_confirmation(port)
requires_confirmation(port) ==
    LET s == lookup(port) IN
    IF s = None THEN FALSE ELSE s.some.risk \in {"High", "Critical"}

InitSvc ==
    /\ svc_port \in 0..U16Max
    /\ svc_lookup = None
    /\ svc_confirm = FALSE
    /\ svc_pc = "input"
    /\ PortsIdle /\ TreeIdle /\ KillIdle /\ DockIdle
    /\ AddrIdle /\ EnumIdle /\ FlowIdle
    /\ RunIdle /\ ArgsIdle /\ LookIdle /\ IaIdle /\ TuiIdle

\* A caller classifies the port: lookup and requires_confirmation.
Classify ==
    /\ svc_pc = "input"
    /\ svc_lookup' = lookup(svc_port)
    /\ svc_confirm' = requires_confirmation(svc_port)
    /\ svc_pc' = "done"
    /\ UNCHANGED <<svc_port, portVars, treeVars, killVars, dockVars, addrVars, enumVars, flowVars,
                   runVars, argsVars, lookVars, iaVars, tuiVars>>

NextSvc == Classify

SpecSvc == InitSvc /\ [][NextSvc]_vars

(***************************************************************************)
(* Container identity: src/src/docker.rs                                   *)
(***************************************************************************)

\* struct PortMapping
PortMapping(host_port, container_port, protocol) ==
    [host_port |-> host_port, container_port |-> container_port, protocol |-> protocol]

\* struct ContainerInfo
ContainerInfo(id, name, image, status, ports) ==
    [id |-> id, name |-> name, image |-> image, status |-> status, ports |-> ports]

\* The containers compared: two values of every field (those of the tests).
ContainerSamples ==
    {ContainerInfo(id, name, image, status, ports) :
        id \in {"abc123def456", "xyz789abc012"},
        name \in {"my-postgres", "my-redis"},
        image \in {"postgres:15", "redis:7"},
        status \in {"Up 2 hours", "Up 1 minute"},
        ports \in {<<>>, <<PortMapping(Some(5432), 5432, "tcp")>>}}

\* matches comparing the id as well.
matches_with_id(self, other) ==
    self.id = other.id /\ self.name = other.name /\ self.image = other.image

\* ContainerInfo::matches(&self, other)
matches(self, other) == self.name = other.name /\ self.image = other.image

InitDocker ==
    /\ ca \in ContainerSamples
    /\ cb \in ContainerSamples
    /\ cc \in ContainerSamples
    /\ match_res = None
    /\ dock_pc = "input"
    /\ PortsIdle /\ TreeIdle /\ KillIdle /\ SvcIdle
    /\ AddrIdle /\ EnumIdle /\ FlowIdle
    /\ RunIdle /\ ArgsIdle /\ LookIdle /\ IaIdle /\ TuiIdle

\* The three containers are compared with one another.
CompareContainers ==
    /\ dock_pc = "input"
    /\ match_res' = [aa |-> matches(ca, ca),
                     ab |-> matches(ca, cb),
                     ba |-> matches(cb, ca),
                     bc |-> matches(cb, cc),
                     ac |-> matches(ca, cc)]
    /\ dock_pc' = "done"
    /\ UNCHANGED <<ca, cb, cc, portVars, treeVars, killVars, svcVars, addrVars, enumVars, flowVars,
                   runVars, argsVars, lookVars, iaVars, tuiVars>>

NextDocker == CompareContainers

SpecDocker == InitDocker /\ [][NextDocker]_vars

\* ContainerInfo::stable_key(&self): format!("{}:{}", self.name, self.image)
stable_key(self) == self.name \o ":" \o self.image

\* The containers whose keys are compared: ContainerInfo is a public struct of
\* Strings, so a name may hold the separator of the key.
KeySamples ==
    {ContainerInfo(id, name, image, "Up 2 hours", <<>>) :
        id \in {"abc123def456", "xyz789abc012"},
        name \in {"web", "web:nginx", "my-postgres"},
        image \in {"nginx:1.25", "1.25", "postgres:15"}}

InitKeys ==
    /\ ca \in KeySamples
    /\ cb \in KeySamples
    /\ cc = None
    /\ match_res = None
    /\ dock_pc = "input"
    /\ PortsIdle /\ TreeIdle /\ KillIdle /\ SvcIdle
    /\ AddrIdle /\ EnumIdle /\ FlowIdle
    /\ RunIdle /\ ArgsIdle /\ LookIdle /\ IaIdle /\ TuiIdle

\* The two containers are compared by matches and by their stable keys.
CompareKeys ==
    /\ dock_pc = "input"
    /\ match_res' = [matches |-> matches(ca, cb),
                     key_a |-> stable_key(ca),
                     key_b |-> stable_key(cb)]
    /\ dock_pc' = "done"
    /\ UNCHANGED <<ca, cb, cc, portVars, treeVars, killVars, svcVars, addrVars, enumVars, flowVars,
                   runVars, argsVars, lookVars, iaVars, tuiVars>>

NextKeys == CompareKeys

SpecKeys == InitKeys /\ [][NextKeys]_vars

(***************************************************************************)
(* Text: a &str the code takes apart is a sequence of one-character        *)
(* strings, so that searching, slicing and number parsing are computed.    *)
(***************************************************************************)
DigitChars == <<"0", "1", "2", "3", "4", "5", "6", "7", "8", "9">>

\* char::is_numeric, on the characters of the sample texts (ASCII)
is_numeric(c) == \E i \in 1..10 : DigitChars[i] = c

\* char::to_digit(10) of a decimal digit
to_digit(c) == (CHOOSE i \in 1..10 : DigitChars[i] = c) - 1

\* The digits of an unsigned number, most significant first: the value, or None
\* at a character that is no digit or when the value passes max.
RECURSIVE parse_digits(_, _, _)
parse_digits(s, acc, max) ==
    IF s = <<>> THEN Some(acc)
    ELSE IF ~is_numeric(Head(s)) THEN None
    ELSE LET next == acc * 10 + to_digit(Head(s)) IN
         IF next > max THEN None ELSE parse_digits(Tail(s), next, max)

\* The same for a u32, held as its two 16-bit halves.
RECURSIVE parse_digits32(_, _)
parse_digits32(s, acc) ==
    IF s = <<>> THEN Some(acc)
    ELSE IF ~is_numeric(Head(s)) THEN None
    ELSE LET lo == acc.lo * 10 + to_digit(Head(s))
             hi == acc.hi * 10 + lo \div TwoPow16
         IN IF hi >= TwoPow16 THEN None
            ELSE parse_digits32(Tail(s), U32(hi, lo % TwoPow16))

\* str::parse of an unsigned integer: one leading '+' is allowed, at least one
\* digit must follow, and the value must fit the type.
strip_plus(s) == IF s # <<>> /\ Head(s) = "+" THEN Tail(s) ELSE s
parse_u16(s) ==
    IF strip_plus(s) = <<>> THEN None ELSE parse_digits(strip_plus(s), 0, U16Max)
parse_u32(s) ==
    IF strip_plus(s) = <<>> THEN None ELSE parse_digits32(strip_plus(s), U32(0, 0))

\* The integer a u32 below 2^31 stands for (the pids of the samples are).
u32_value(x) == x.hi * TwoPow16 + x.lo

\* str::find(char) and str::rfind(char): the position of the first and of the
\* last occurrence, 0 for None.
find(s, c) ==
    IF \E i \in 1..Len(s) : s[i] = c
    THEN CHOOSE i \in 1..Len(s) : s[i] = c /\ \A j \in 1..(i - 1) : s[j] # c
    ELSE 0
rfind(s, c) ==
    IF \E i \in 1..Len(s) : s[i] = c
    THEN CHOOSE i \in 1..Len(s) : s[i] = c /\ \A j \in (i + 1)..Len(s) : s[j] # c
    ELSE 0

\* Whether pat occurs in s at position i, and str::find(&str) / str::contains.
occurs_at(s, pat, i) ==
    i + Len(pat) - 1 <= Len(s) /\ \A k \in 1..Len(pat) : s[i + k - 1] = pat[k]
find_str(s, pat) ==
    IF \E i \in 1..Len(s) : occurs_at(s, pat, i)
    THEN CHOOSE i \in 1..Len(s) :
            occurs_at(s, pat, i) /\ \A j \in 1..(i - 1) : ~occurs_at(s, pat, j)
    ELSE 0
contains(s, pat) == pat = <<>> \/ find_str(s, pat) # 0

\* &s[from..] and &s[..to] with positions counted from 1
slice_from(s, from) == SubSeq(s, from, Len(s))
slice_to(s, to) == SubSeq(s, 1, to)

\* The longest prefix of numeric characters: &s[..s.find(|c| !c.is_numeric())]
RECURSIVE numeric_prefix(_)
numeric_prefix(s) ==
    IF s = <<>> \/ ~is_numeric(Head(s)) THEN <<>>
    ELSE <<Head(s)>> \o numeric_prefix(Tail(s))

\* str::trim_start_matches(char) and str::trim_end_matches(char)
RECURSIVE trim_start_matches(_, _)
trim_start_matches(s, c) ==
    IF s # <<>> /\ Head(s) = c THEN trim_start_matches(Tail(s), c) ELSE s
RECURSIVE trim_end_matches(_, _)
trim_end_matches(s, c) ==
    IF s # <<>> /\ s[Len(s)] = c
    THEN trim_end_matches(SubSeq(s, 1, Len(s) - 1), c) ELSE s

\* char::is_whitespace on the sample texts, and str::trim
is_whitespace(c) == c \in {" ", "\t", "\n", "\r"}
RECURSIVE trim_start(_)
trim_start(s) == IF s # <<>> /\ is_whitespace(Head(s)) THEN trim_start(Tail(s)) ELSE s
RECURSIVE trim_end(_)
trim_end(s) ==
    IF s # <<>> /\ is_whitespace(s[Len(s)])
    THEN trim_end(SubSeq(s, 1, Len(s) - 1)) ELSE s
trim(s) == trim_end(trim_start(s))

\* str::to_lowercase and str::to_uppercase (ASCII letters)
LowerChars == <<"a", "b", "c", "d", "e", "f", "g", "h", "i", "j", "k", "l", "m", "n", "o", "p", "q", "r", "s", "t", "u", "v", "w", "x", "y", "z">>
UpperChars == <<"A", "B", "C", "D", "E", "F", "G", "H", "I", "J", "K", "L", "M", "N", "O", "P", "Q", "R", "S", "T", "U", "V", "W", "X", "Y", "Z">>
char_map(c, from, to) ==
    IF \E i \in 1..26 : from[i] = c THEN to[CHOOSE i \in 1..26 : from[i] = c] ELSE c
to_lowercase(s) == SubSeq([i \in 1..Len(s) |-> char_map(s[i], UpperChars, LowerChars)], 1, Len(s))
to_uppercase(s) == SubSeq([i \in 1..Len(s) |-> char_map(s[i], LowerChars, UpperChars)], 1, Len(s))

(***************************************************************************)
(* Address parsing: src/src/port.rs, parse_address and parse_linux_address *)
(***************************************************************************)

\* parse_address(addr), the Windows backend's parser: Option<(String, u16)>
parse_address(a) ==
    IF a # <<>> /\ Head(a) = "["
    THEN LET bracket_end == find(a, "]") IN
         IF bracket_end = 0 THEN None
         ELSE LET ip == SubSeq(a, 2, bracket_end - 1)
                  port_part == slice_from(a, bracket_end + 1)
              IN IF port_part = <<>> \/ Head(port_part) # ":" THEN None
                 ELSE LET port == parse_u16(Tail(port_part)) IN
                      IF port = None THEN None ELSE Some(<<ip, port.some>>)
    ELSE LET colon_pos == rfind(a, ":") IN
         IF colon_pos = 0 THEN None
         ELSE LET port == parse_u16(slice_from(a, colon_pos + 1)) IN
              IF port = None THEN None
              ELSE Some(<<slice_to(a, colon_pos - 1), port.some>>)

\* parse_linux_address with find for rfind: the split at the first ':'.
parse_linux_address_first(a) ==
    LET colon_pos == find(a, ":") IN
    IF colon_pos = 0 THEN None
    ELSE LET port == parse_u16(slice_from(a, colon_pos + 1)) IN
         IF port = None THEN None
         ELSE Some(<<trim_end_matches(
                        trim_start_matches(slice_to(a, colon_pos - 1), "["), "]"),
                     port.some>>)

\* parse_linux_address(addr), the Linux backend's parser
parse_linux_address(a) ==
    LET colon_pos == rfind(a, ":") IN
    IF colon_pos = 0 THEN None
    ELSE LET port == parse_u16(slice_from(a, colon_pos + 1)) IN
         IF port = None THEN None
         ELSE Some(<<trim_end_matches(
                        trim_start_matches(slice_to(a, colon_pos - 1), "["), "]"),
                     port.some>>)

\* The address parser each build has (macOS reads the port alone).
AddressParser(os, a) ==
    IF os = "windows" THEN parse_address(a) ELSE parse_linux_address(a)

\* Port texts with the number they are, None for a text that is no u16.
PortTexts ==
    {[text |-> <<"3", "0", "0", "0">>, port |-> Some(3000)],
     [text |-> <<"8", "0", "8", "0">>, port |-> Some(8080)],
     [text |-> <<"0">>, port |-> Some(0)],
     [text |-> <<"6", "5", "5", "3", "5">>, port |-> Some(65535)],
     [text |-> <<"6", "5", "5", "3", "6">>, port |-> None],
     [text |-> <<"8", "0", "a">>, port |-> None],
     [text |-> <<"*">>, port |-> None],
     [text |-> <<>>, port |-> None]}

\* The addresses of the three forms the tools print: the text, and the ip and
\* the port text it was written from.
FormAddresses ==
    {[form |-> "ip:port", text |-> ip \o <<":">> \o pt.text, ip |-> ip, port |-> pt.port] :
        ip \in {<<"0", ".", "0", ".", "0", ".", "0">>, <<"1", "2", "7", ".", "0", ".", "0", ".", "1">>, <<":", ":">>}, pt \in PortTexts}
    \cup
    {[form |-> "[ip]:port", text |-> <<"[">> \o ip \o <<"]", ":">> \o pt.text, ip |-> ip,
      port |-> pt.port] :
        ip \in {<<":", ":", "1">>, <<":", ":">>}, pt \in PortTexts}
    \cup
    {[form |-> "*:port", text |-> <<"*", ":">> \o pt.text, ip |-> <<"*">>, port |-> pt.port] :
        pt \in PortTexts}

\* Bound: the length of the other texts tried, over a small alphabet.
MaxAddrLen == 4
AddrAlphabet == {"1", ":", "[", "]", "*", "."}
OtherAddresses ==
    {[form |-> "other", text |-> t, ip |-> <<>>, port |-> None] :
        t \in UNION {[1..n -> AddrAlphabet] : n \in 0..MaxAddrLen}}

InitAddr ==
    /\ addr_in \in FormAddresses \cup OtherAddresses
    /\ addr_result = None
    /\ addr_pc = "input"
    /\ target_os \in {"linux", "windows"}
    /\ tool_tcp = None /\ tool_udp = None /\ enum_result = None
    /\ PortsIdle /\ TreeIdle /\ KillIdle /\ SvcIdle /\ DockIdle /\ FlowIdle
    /\ RunIdle /\ ArgsIdle /\ LookIdle /\ IaIdle /\ TuiIdle

\* The build's parser is applied to the text.
ParseAddress ==
    /\ addr_pc = "input"
    /\ addr_result' = AddressParser(target_os, addr_in.text)
    /\ addr_pc' = "done"
    /\ UNCHANGED <<addr_in, portVars, treeVars, killVars, svcVars, dockVars,
                   enumVars, flowVars,
                   runVars, argsVars, lookVars, iaVars, tuiVars>>

NextAddr == ParseAddress

SpecAddr == InitAddr /\ [][NextAddr]_vars

(***************************************************************************)
(* Connection enumerator: src/src/port.rs, get_network_connections         *)
(***************************************************************************)

\* extract_pid_from_ss(users_str): the number after the first "pid="
extract_pid_from_ss(users_str) ==
    LET pid_start == find_str(users_str, <<"p", "i", "d", "=">>) IN
    IF pid_start = 0 THEN None
    ELSE LET rest == slice_from(users_str, pid_start + 4)
             pid == parse_u32(numeric_prefix(rest))
         IN IF pid = None THEN None ELSE Some(u32_value(pid.some))

\* extract_port_from_lsof(name_part): the digits after the last ':'
extract_port_from_lsof(name_part) ==
    LET colon_pos == rfind(name_part, ":") IN
    IF colon_pos = 0 THEN None
    ELSE parse_u16(numeric_prefix(slice_from(name_part, colon_pos + 1)))

\* pid_str.parse().unwrap_or(0), then `if pid > 0 { Some(pid) } else { None }`
pid_or_none(pid_str) ==
    LET pid == parse_u32(pid_str) IN
    IF pid = None \/ pid.some = U32(0, 0) THEN None ELSE Some(u32_value(pid.some))

\* The NetConnection a backend pushes.
Connection(protocol, local, remote, state, pid) ==
    [protocol |-> protocol,
     local_addr |-> local[1],
     local_port |-> local[2],
     remote_addr |-> IF remote = None THEN None ELSE Some(remote.some[1]),
     remote_port |-> IF remote = None THEN None ELSE Some(remote.some[2]),
     state |-> state,
     pid |-> pid]

\* One pass of the Linux loops over a line's columns (parts): the record pushed,
\* or None. The TCP loop reads the address of column 3, the UDP loop of column 4
\* (columns counted from 0).
linux_row(parts, protocol) ==
    IF Len(parts) < 5 THEN None
    ELSE LET local == parse_linux_address(IF protocol = "TCP" THEN parts[4] ELSE parts[5]) IN
         IF local = None THEN None
         ELSE Some(Connection(protocol, local.some, None,
                              IF protocol = "TCP" THEN parts[1] ELSE <<"*">>,
                              extract_pid_from_ss(parts[Len(parts)])))

\* One pass of the Windows loop over the output of `netstat -ano -p TCP`.
windows_tcp_row(parts) ==
    IF Len(parts) < 5 THEN None
    ELSE LET protocol == to_uppercase(parts[1]) IN
         IF protocol # <<"T", "C", "P">> /\ protocol # <<"U", "D", "P">> THEN None
         ELSE LET local == parse_address(parts[2]) IN
              IF local = None THEN None
              ELSE LET remote == IF protocol = <<"T", "C", "P">> THEN parse_address(parts[3]) ELSE None
                       state == IF protocol = <<"T", "C", "P">> THEN parts[4] ELSE <<"L", "I", "S", "T", "E", "N", "I", "N", "G">>
                   IN IF state = <<"L", "I", "S", "T", "E", "N", "I", "N", "G">> \/ protocol = <<"U", "D", "P">>
                      THEN Some(Connection(IF protocol = <<"T", "C", "P">> THEN "TCP" ELSE "UDP",
                                           local.some, remote, state,
                                           pid_or_none(parts[Len(parts)])))
                      ELSE None

\* One pass of the Windows loop over the output of `netstat -ano -p UDP`.
windows_udp_row(parts) ==
    IF Len(parts) < 2 THEN None
    ELSE LET local == parse_address(parts[2]) IN
         IF local = None THEN None
         ELSE Some(Connection("UDP", local.some, None, <<"*">>,
                              pid_or_none(parts[Len(parts)])))

\* One pass of the macOS loops over the output of lsof.
macos_row(parts, protocol) ==
    IF Len(parts) < 9 THEN None
    ELSE LET port == extract_port_from_lsof(parts[9]) IN
         IF port = None THEN None
         ELSE Some(Connection(protocol, <<<<"*">>, port.some>>, None,
                              IF protocol = "TCP" THEN <<"L", "I", "S", "T", "E", "N">> ELSE <<"*">>,
                              pid_or_none(parts[2])))

\* The pass of the build's loop for one line of the TCP or of the UDP listing.
row_of(os, protocol, parts) ==
    IF os = "linux" THEN linux_row(parts, protocol)
    ELSE IF os = "macos" THEN macos_row(parts, protocol)
    ELSE IF protocol = "TCP" THEN windows_tcp_row(parts)
    ELSE windows_udp_row(parts)

\* stdout.lines().skip(n): Windows skips four lines of heading, the others one.
HeaderLines(os) == IF os = "windows" THEN 4 ELSE 1
skip(lines, n) == SubSeq(lines, n + 1, Len(lines))

\* The loop over the lines of one listing: the records pushed, in line order.
scan(os, protocol, lines) ==
    LET body == skip(lines, HeaderLines(os))
        passes == [i \in 1..Len(body) |-> row_of(os, protocol, body[i].parts)]
        pushed == SelectSeq(passes, LAMBDA r : r # None)
    IN [i \in 1..Len(pushed) |-> pushed[i].some]

\* get_network_connections(): Command::output() fails only when the tool cannot
\* be started; the exit status is not read. The UDP listing is run after the TCP
\* loop.
get_network_connections(os, tcp, udp) ==
    IF ~tcp.spawned THEN Err("NetworkError", "tcp")
    ELSE IF ~udp.spawned THEN Err("NetworkError", "udp")
    ELSE Ok(scan(os, "TCP", tcp.lines) \o scan(os, "UDP", udp.lines))

\* The local addresses and the pid texts of the sample rows, each with what it
\* says: the port (None: no u16 after the last ':') and the owner (None: 0 or
\* no number).
RowAddresses ==
    {[text |-> <<"0", ".", "0", ".", "0", ".", "0", ":", "3", "0", "0", "0">>, port |-> Some(3000)],
     [text |-> <<"[", ":", ":", "]", ":", "8", "0", "8", "0">>, port |-> Some(8080)],
     [text |-> <<"0", ".", "0", ".", "0", ".", "0", ":", "0">>, port |-> Some(0)],
     [text |-> <<"0", ".", "0", ".", "0", ".", "0", ":", "6", "5", "5", "3", "6">>, port |-> None]}
PidTexts ==
    {[text |-> <<"1", "0", "1">>, pid |-> Some(101)],
     [text |-> <<"0">>, pid |-> None],
     [text |-> <<"x">>, pid |-> None]}

\* A line of a listing: its columns (line.split_whitespace()), and the socket it
\* reports, None when it reports none the enumerator lists.
Line(parts, socket) == [parts |-> parts, socket |-> socket]
Socket(a, pt) ==
    IF a.port = None THEN None ELSE Some([port |-> a.port.some, pid |-> pt.pid])

\* ss -tlnp / ss -ulnp: State Recv-Q Send-Q Local Peer Process; a row cut short
\* after the local address has four columns.
UsersColumn(pt) == <<"u", "s", "e", "r", "s", ":", "(", "(", "\"", "n", "o", "d", "e", "\"", ",", "p", "i", "d", "=">> \o pt.text \o <<",", "f", "d", "=", "2", "1", ")", ")">>
SsRow(state, a, pt) ==
    Line(<<state, <<"0">>, <<"1", "2", "8">>, a.text, <<"0", ".", "0", ".", "0", ".", "0", ":", "*">>, UsersColumn(pt)>>, Socket(a, pt))
SsRows(state) ==
    {SsRow(state, a, pt) : a \in RowAddresses, pt \in PidTexts}
        \cup {Line(<<state, <<"0">>, <<"1", "2", "8">>, <<"0", ".", "0", ".", "0", ".", "0", ":", "3", "0", "0", "0">>>>, None)}
SsHeader ==
    <<Line(<<<<"S", "t", "a", "t", "e">>, <<"R", "e", "c", "v", "-", "Q">>, <<"S", "e", "n", "d", "-", "Q">>, <<"L", "o", "c", "a", "l">>, <<"A", "d", "d", "r", "e", "s", "s", ":", "P", "o", "r", "t">>,
             <<"P", "e", "e", "r">>, <<"A", "d", "d", "r", "e", "s", "s", ":", "P", "o", "r", "t">>, <<"P", "r", "o", "c", "e", "s", "s">>>>, None)>>

\* netstat -ano: Proto Local Foreign State PID for TCP, Proto Local Foreign PID
\* for UDP, after four lines of heading; a TCP row of an established connection
\* is no listening socket.
NetstatTcpRows ==
    {Line(<<<<"T", "C", "P">>, a.text, <<"0", ".", "0", ".", "0", ".", "0", ":", "0">>, <<"L", "I", "S", "T", "E", "N", "I", "N", "G">>, pt.text>>, Socket(a, pt)) :
        a \in RowAddresses, pt \in PidTexts}
        \cup {Line(<<<<"T", "C", "P">>, <<"0", ".", "0", ".", "0", ".", "0", ":", "3", "0", "0", "0">>, <<"1", "0", ".", "0", ".", "0", ".", "2", ":", "4", "4", "3">>, <<"E", "S", "T", "A", "B", "L", "I", "S", "H", "E", "D">>,
                     <<"1", "0", "1">>>>, None)}
NetstatUdpRows ==
    {Line(<<<<"U", "D", "P">>, a.text, <<"*", ":", "*">>, pt.text>>, Socket(a, pt)) :
        a \in RowAddresses, pt \in PidTexts}
        \cup {Line(<<<<"U", "D", "P">>>>, None)}
NetstatHeader ==
    <<Line(<<>>, None),
      Line(<<<<"A", "c", "t", "i", "v", "e">>, <<"C", "o", "n", "n", "e", "c", "t", "i", "o", "n", "s">>>>, None),
      Line(<<>>, None),
      Line(<<<<"P", "r", "o", "t", "o">>, <<"L", "o", "c", "a", "l">>, <<"A", "d", "d", "r", "e", "s", "s">>, <<"F", "o", "r", "e", "i", "g", "n">>, <<"A", "d", "d", "r", "e", "s", "s">>, <<"S", "t", "a", "t", "e">>,
             <<"P", "I", "D">>>>, None)>>

\* lsof -n -P: COMMAND PID USER FD TYPE DEVICE SIZE/OFF NODE NAME; a row cut
\* short before NAME has eight columns.
LsofRow(a, pt, tail) ==
    Line(<<<<"n", "o", "d", "e">>, pt.text, <<"u", "s", "e", "r">>, <<"2", "1", "u">>, <<"I", "P", "v", "4">>, <<"0", "x", "1">>, <<"0", "t", "0">>, <<"T", "C", "P">>,
           a.text>> \o tail, Socket(a, pt))
LsofRows(tail) ==
    {LsofRow(a, pt, tail) : a \in RowAddresses, pt \in PidTexts}
        \cup {Line(<<<<"n", "o", "d", "e">>, <<"1", "0", "1">>, <<"u", "s", "e", "r">>, <<"2", "1", "u">>, <<"I", "P", "v", "4">>, <<"0", "x", "1">>, <<"0", "t", "0">>,
                     <<"T", "C", "P">>>>, None)}
LsofHeader ==
    <<Line(<<<<"C", "O", "M", "M", "A", "N", "D">>, <<"P", "I", "D">>, <<"U", "S", "E", "R">>, <<"F", "D">>, <<"T", "Y", "P", "E">>, <<"D", "E", "V", "I", "C", "E">>,
             <<"S", "I", "Z", "E", "/", "O", "F", "F">>, <<"N", "O", "D", "E">>, <<"N", "A", "M", "E">>>>, None)>>

Rows(os, protocol) ==
    IF os = "linux" THEN SsRows(IF protocol = "TCP" THEN <<"L", "I", "S", "T", "E", "N">> ELSE <<"U", "N", "C", "O", "N", "N">>)
    ELSE IF os = "macos" THEN LsofRows(IF protocol = "TCP" THEN <<<<"(", "L", "I", "S", "T", "E", "N", ")">>>> ELSE <<>>)
    ELSE IF protocol = "TCP" THEN NetstatTcpRows
    ELSE NetstatUdpRows
Header(os) ==
    IF os = "linux" THEN SsHeader ELSE IF os = "macos" THEN LsofHeader ELSE NetstatHeader

\* Bounds: the number of rows of the TCP and of the UDP listing.
MaxTcpRows == 2
MaxUdpRows == 1

\* The runs of a listing tool: it could not be started; it exited non-zero and
\* printed nothing; it printed its heading and up to max rows.
ToolRuns(os, protocol, max) ==
    {[spawned |-> FALSE, success |-> FALSE, lines |-> <<>>],
     [spawned |-> TRUE, success |-> FALSE, lines |-> <<>>]}
    \cup
    {[spawned |-> TRUE, success |-> TRUE, lines |-> Header(os) \o rows] :
        rows \in UNION {[1..n -> Rows(os, protocol)] : n \in 0..max}}

InitEnum ==
    /\ target_os \in {"linux", "windows", "macos"}
    /\ tool_tcp \in ToolRuns(target_os, "TCP", MaxTcpRows)
    /\ tool_udp \in ToolRuns(target_os, "UDP", MaxUdpRows)
    /\ enum_result = None
    /\ PortsIdle /\ TreeIdle /\ KillIdle /\ SvcIdle /\ DockIdle /\ AddrIdle /\ FlowIdle
    /\ RunIdle /\ ArgsIdle /\ LookIdle /\ IaIdle /\ TuiIdle

\* get_network_connections() is called.
Enumerate ==
    /\ enum_result = None
    /\ enum_result' = get_network_connections(target_os, tool_tcp, tool_udp)
    /\ UNCHANGED <<target_os, tool_tcp, tool_udp, portVars, treeVars, killVars, svcVars,
                   dockVars, addrVars, flowVars,
                   runVars, argsVars, lookVars, iaVars, tuiVars>>

NextEnum == Enumerate

SpecEnum == InitEnum /\ [][NextEnum]_vars

(***************************************************************************)
(* CLI kill flow: src/src/main.rs, cmd_kill and kill_docker_container      *)
(***************************************************************************)

\* is_critical_container(container): the lowercased image holds a critical name.
critical_images ==
    <<<<"p", "o", "s", "t", "g", "r", "e", "s">>, <<"m", "y", "s", "q", "l">>, <<"m", "a", "r", "i", "a", "d", "b">>, <<"m", "o", "n", "g", "o">>, <<"r", "e", "d", "i", "s">>, <<"e", "l", "a", "s", "t", "i", "c", "s", "e", "a", "r", "c", "h">>,
      <<"r", "a", "b", "b", "i", "t", "m", "q">>, <<"k", "a", "f", "k", "a">>, <<"z", "o", "o", "k", "e", "e", "p", "e", "r">>, <<"c", "o", "n", "s", "u", "l">>, <<"v", "a", "u", "l", "t">>, <<"e", "t", "c", "d">>, <<"m", "i", "n", "i", "o">>>>
is_critical_container(container) ==
    LET image_lower == to_lowercase(container.image) IN
    \E i \in 1..Len(critical_images) : contains(image_lower, critical_images[i])

\* The test of a critical container's answer with the case of the letters ignored.
typed_yes_any_case(input) == to_lowercase(trim(input)) = <<"y", "e", "s">>

\* input.trim() == "yes": the answer that stops a critical container.
typed_yes(input) == trim(input) = <<"y", "e", "s">>

\* matches!(input.trim().to_lowercase().as_str(), "y" | "yes")
answered_y_or_yes(input) == to_lowercase(trim(input)) \in {<<"y">>, <<"y", "e", "s">>}

\* confirm_kill taking "y" for an approval whatever the port.
confirm_kill_y_for_all(input, is_critical) == answered_y_or_yes(input)

\* confirm_kill(info, is_critical), given the line read
confirm_kill(input, is_critical) ==
    IF is_critical THEN to_lowercase(trim(input)) = <<"y", "e", "s">> ELSE answered_y_or_yes(input)

\* What a call of the flow did and returned: the calls it made to the outside, in
\* order, and its return value; a panic (unwrap of a failed read) ends it.
Outcome(log, result) == [log |-> log, result |-> result]
Panic == [ok |-> FALSE, err |-> "panic", payload |-> Unit]
ReadLineCall == [call |-> "read_line"]
StopCall(name) == [call |-> "stop_container_by_name", name |-> name]
KillCall(pid, force) == [call |-> "kill_process", pid |-> pid, force |-> force]

\* kill_docker_container handing the container's id to the stop request.
kill_docker_container_by_id(in) ==
    LET container == in.container.some
        is_critical == is_critical_container(container)
    IN
    IF in.dry_run THEN Outcome(<<>>, Ok(Unit))
    ELSE IF in.force THEN Outcome(<<StopCall(container.id)>>, in.stop)
    ELSE IF ~in.answer.ok THEN Outcome(<<ReadLineCall>>, Ok(Unit))
    ELSE IF is_critical /\ ~typed_yes(in.answer.text)
         THEN Outcome(<<ReadLineCall>>, Ok(Unit))
    ELSE IF ~is_critical /\ ~answered_y_or_yes(in.answer.text)
         THEN Outcome(<<ReadLineCall>>, Ok(Unit))
    ELSE Outcome(<<ReadLineCall, StopCall(container.id)>>, in.stop)

\* kill_docker_container(port, container, force, dry_run)
kill_docker_container(in) ==
    LET container == in.container.some
        is_critical == is_critical_container(container)
    IN
    IF in.dry_run THEN Outcome(<<>>, Ok(Unit))
    ELSE IF in.force THEN Outcome(<<StopCall(container.name)>>, in.stop)
    ELSE IF ~in.answer.ok THEN Outcome(<<ReadLineCall>>, Ok(Unit))
    ELSE IF is_critical /\ ~typed_yes(in.answer.text)
         THEN Outcome(<<ReadLineCall>>, Ok(Unit))
    ELSE IF ~is_critical /\ ~answered_y_or_yes(in.answer.text)
         THEN Outcome(<<ReadLineCall>>, Ok(Unit))
    ELSE Outcome(<<ReadLineCall, StopCall(container.name)>>, in.stop)

\* cmd_kill from get_port_info on: the path of a port no container publishes.
cmd_kill_process(in) ==
    IF ~in.port_info.ok THEN Outcome(<<>>, in.port_info)
    ELSE IF in.port_info.val = None THEN Outcome(<<>>, Ok(Unit))
    ELSE LET port_info == in.port_info.val.some
             is_critical == requires_confirmation(in.port)
             kill == kill_process(platform, u32(port_info.pid), in.sigkill, in.os).result
         IN
         IF in.dry_run THEN Outcome(<<>>, Ok(Unit))
         ELSE IF in.force THEN Outcome(<<KillCall(port_info.pid, in.sigkill)>>, kill)
         ELSE IF ~in.answer.ok THEN Outcome(<<ReadLineCall>>, Panic)
         ELSE IF ~confirm_kill(in.answer.text, is_critical)
              THEN Outcome(<<ReadLineCall>>, Ok(Unit))
         ELSE Outcome(<<ReadLineCall, KillCall(port_info.pid, in.sigkill)>>, kill)

\* cmd_kill going on to the process of the port after the container path.
cmd_kill_container_then_process(in) ==
    IF in.docker /\ in.container # None
    THEN Outcome(kill_docker_container(in).log \o cmd_kill_process(in).log,
                 cmd_kill_process(in).result)
    ELSE cmd_kill_process(in)

\* cmd_kill(port, force, dry_run, sigkill): with the docker feature, a container
\* found for the port is handled and the function returns.
cmd_kill(in) ==
    IF in.docker /\ in.container # None
    THEN kill_docker_container(in)
    ELSE cmd_kill_process(in)

\* The containers found for the port: a database, a web server, and an image
\* whose name is written with capitals.
FlowContainers ==
    {ContainerInfo("abc123def456", "my-db", <<"p", "o", "s", "t", "g", "r", "e", "s", ":", "1", "5", "-", "a", "l", "p", "i", "n", "e">>, "Up 2 hours",
                   <<PortMapping(Some(5432), 5432, "tcp")>>),
     ContainerInfo("xyz789abc012", "web", <<"n", "g", "i", "n", "x", ":", "l", "a", "t", "e", "s", "t">>, "Up 1 minute", <<>>),
     ContainerInfo("0123456789ab", "cache", <<"b", "i", "t", "n", "a", "m", "i", "/", "R", "e", "d", "i", "s", ":", "7">>, "Up 2 hours", <<>>)}

\* What read_line gives: a failure, the end of input, or a line.
Answers ==
    {[ok |-> FALSE, text |-> <<>>]}
    \cup {[ok |-> TRUE, text |-> t] :
            t \in {<<>>, <<"\n">>, <<"y", "\n">>, <<"Y", "\n">>, <<"y", "e", "s", "\n">>, <<"Y", "E", "S", "\n">>, <<" ", " ", "y", "e", "s", " ", "\r", "\n">>,
                   <<"n", "o", "\n">>}}

\* The owner get_port_info reports for the port.
FlowPortInfos ==
    {Err("NetworkError", "ss"), Ok(None),
     Ok(Some([pid |-> 101, process_name |-> "node"]))}

InitFlow ==
    /\ flow_in \in [port : {5432, 3000},
                    force : BOOLEAN, dry_run : BOOLEAN, sigkill : BOOLEAN,
                    docker : BOOLEAN,
                    container : {None} \cup {Some(c) : c \in FlowContainers},
                    port_info : FlowPortInfos,
                    answer : Answers,
                    os : UnixOutcomes,
                    stop : {Ok(Unit), Err("DockerError", "stop")}]
    /\ flow_log = <<>>
    /\ flow_result = None
    /\ flow_pc = "input"
    /\ PortsIdle /\ TreeIdle /\ KillIdle /\ SvcIdle /\ DockIdle /\ AddrIdle /\ EnumIdle
    /\ RunIdle /\ ArgsIdle /\ LookIdle /\ IaIdle /\ TuiIdle

\* cmd_kill is called and returns.
CmdKill ==
    /\ flow_pc = "input"
    /\ flow_log' = cmd_kill(flow_in).log
    /\ flow_result' = cmd_kill(flow_in).result
    /\ flow_pc' = "done"
    /\ UNCHANGED <<flow_in, portVars, treeVars, killVars, svcVars, dockVars, addrVars,
                   enumVars,
                   runVars, argsVars, lookVars, iaVars, tuiVars>>

NextFlow == CmdKill

SpecFlow == InitFlow /\ [][NextFlow]_vars

(***************************************************************************)
(* CLI dispatch of the kill command: src/src/main.rs (main, run)           *)
(***************************************************************************)

\* Bound: the number of ports one kill command is given.
MaxPorts == 2

\* The lists of ports a kill command is given (clap requires at least one).
RECURSIVE PortLists(_)
PortLists(n) ==
    IF n = 0 THEN {<<>>}
    ELSE PortLists(n - 1)
         \cup {Append(l, p) : l \in {x \in PortLists(n - 1) : Len(x) = n - 1},
                              p \in {5432, 3000}}

\* The command lines: `portr kill <ports> [--force] [--dry-run] [--sigkill]`, or
\* `portr <ports> --kill [--force] [--dry-run]`, which has no --sigkill; and the
\* `confirm` setting of the configuration file.
CommandLines ==
    {c \in [via : {"subcommand", "direct"},
            ports : PortLists(MaxPorts) \ {<<>>},
            force : BOOLEAN, confirm : BOOLEAN, dry_run : BOOLEAN, sigkill : BOOLEAN] :
        c.via = "direct" => ~c.sigkill}

\* What read_line gives during one cmd_kill: a failure, or one of three lines.
RunAnswers ==
    {[ok |-> FALSE, text |-> <<>>]}
    \cup {[ok |-> TRUE, text |-> t] :
            t \in {<<"y", "\n">>, <<"Y", "E", "S", "\n">>, <<"n", "o", "\n">>}}

\* What the environment does while cmd_kill handles one port: the container
\* lookup, the owner lookup, the line read, the answer of kill(2) and of the
\* container stop. What the path taken never reads is held at one value: no line
\* is read under force or dry_run, nothing is killed or stopped under dry_run.
RunEnvs(force, dry_run) ==
    LET answers == IF force \/ dry_run THEN {[ok |-> FALSE, text |-> <<>>]} ELSE RunAnswers
        kills == IF dry_run THEN {"OK"} ELSE {"OK", "ESRCH", "EPERM"}
        stops == IF dry_run THEN {Ok(Unit)} ELSE {Ok(Unit), Err("DockerError", "stop")}
    IN
    {[container |-> Some(c), port_info |-> Ok(None), answer |-> a, os |-> "OK", stop |-> st] :
        c \in {x \in FlowContainers : x.name \in {"my-db", "web"}},
        a \in answers, st \in stops}
    \cup {[container |-> None, port_info |-> pi, answer |-> [ok |-> FALSE, text |-> <<>>],
           os |-> "OK", stop |-> Ok(Unit)] :
            pi \in {Err("NetworkError", "ss"), Ok(None)}}
    \cup {[container |-> None, port_info |-> Ok(Some([pid |-> 101, process_name |-> "node"])),
           answer |-> a, os |-> o, stop |-> Ok(Unit)] :
            a \in answers, o \in kills}

\* The loop going on to the next port whatever cmd_kill returned.
after_cmd_kill_ignoring_errors(result, idx, n) ==
    IF ~result.ok /\ result.err = "panic" THEN [pc |-> "panicked", idx |-> idx, result |-> None]
    ELSE IF idx < n THEN [pc |-> "loop", idx |-> idx + 1, result |-> None]
    ELSE [pc |-> "returned", idx |-> idx, result |-> Some(Ok(Unit))]

\* `cmd_kill(..)?` inside `for port in ports`, followed by `Ok(())`: an Err is
\* returned at once, an Ok goes on to the next port or to the end of the loop; a
\* panic unwinds through run.
after_cmd_kill(result, idx, n) ==
    IF ~result.ok /\ result.err = "panic" THEN [pc |-> "panicked", idx |-> idx, result |-> None]
    ELSE IF ~result.ok THEN [pc |-> "returned", idx |-> idx, result |-> Some(result)]
    ELSE IF idx < n THEN [pc |-> "loop", idx |-> idx + 1, result |-> None]
    ELSE [pc |-> "returned", idx |-> idx, result |-> Some(Ok(Unit))]

\* main: ExitCode::SUCCESS for Ok, ExitCode::FAILURE for Err.
main_exit(result) == IF result.ok THEN "SUCCESS" ELSE "FAILURE"

InitRun ==
    /\ run_in \in CommandLines
    /\ effective_force = FALSE
    /\ run_idx = 0
    /\ run_log = <<>>
    /\ run_result = None
    /\ exit_code = None
    /\ run_pc = "start"
    /\ PortsIdle /\ TreeIdle /\ KillIdle /\ SvcIdle /\ DockIdle /\ AddrIdle /\ EnumIdle
    /\ FlowIdle /\ ArgsIdle /\ LookIdle /\ IaIdle /\ TuiIdle

\* run reaches the kill loop: effective_force = force || !confirm.
RunKill ==
    /\ run_pc = "start"
    /\ effective_force' = (run_in.force \/ ~run_in.confirm)
    /\ run_idx' = 1
    /\ run_pc' = "loop"
    /\ UNCHANGED <<run_in, run_log, run_result, exit_code, portVars, treeVars, killVars,
                   svcVars, dockVars, addrVars, enumVars, flowVars, argsVars, lookVars,
                   iaVars, tuiVars>>

\* One iteration of the loop: cmd_kill for the next port, and `?` on its result.
RunCmdKill ==
    /\ run_pc = "loop"
    /\ \E env \in RunEnvs(effective_force, run_in.dry_run) :
        LET in == [port |-> run_in.ports[run_idx],
                   force |-> effective_force,
                   dry_run |-> run_in.dry_run,
                   sigkill |-> IF run_in.via = "subcommand" THEN run_in.sigkill ELSE FALSE,
                   docker |-> TRUE,
                   container |-> env.container,
                   port_info |-> env.port_info,
                   answer |-> env.answer,
                   os |-> env.os,
                   stop |-> env.stop]
        IN
        \E r \in {cmd_kill(in)} :
            \E next \in {after_cmd_kill(r.result, run_idx, Len(run_in.ports))} :
                /\ run_log' = Append(run_log, [in |-> in, log |-> r.log, result |-> r.result])
                /\ run_idx' = next.idx
                /\ run_result' = next.result
                /\ run_pc' = next.pc
    /\ UNCHANGED <<run_in, effective_force, exit_code, portVars, treeVars, killVars,
                   svcVars, dockVars, addrVars, enumVars, flowVars, argsVars, lookVars,
                   iaVars, tuiVars>>

\* main maps what run returned to the exit code.
Main ==
    /\ run_pc = "returned"
    /\ exit_code' = Some(main_exit(run_result.some))
    /\ run_pc' = "exited"
    /\ UNCHANGED <<run_in, effective_force, run_idx, run_log, run_result, portVars, treeVars,
                   killVars, svcVars, dockVars, addrVars, enumVars, flowVars, argsVars,
                   lookVars, iaVars, tuiVars>>

NextRun == RunKill \/ RunCmdKill \/ Main

SpecRun == InitRun /\ [][NextRun]_vars

(***************************************************************************)
(* Direct port arguments: src/src/main.rs (run, cmd_range), config.rs      *)
(***************************************************************************)

\* Bound: the number of port arguments on one command line.
MaxArgs == 2

\* char::is_alphanumeric, on the characters of the sample texts (ASCII)
is_alphanumeric(c) ==
    \/ \E i \in 1..26 : LowerChars[i] = c \/ UpperChars[i] = c
    \/ is_numeric(c)

\* is_port_or_alias(s): a port number, or only letters, digits, '_' and '-'.
is_port_or_alias(s) ==
    \/ parse_u16(s) # None
    \/ \A i \in 1..Len(s) : is_alphanumeric(s[i]) \/ s[i] = "_" \/ s[i] = "-"

\* resolve_alias(alias, config): config.aliases.get(alias).copied()
resolve_alias(alias, config) ==
    IF alias \in DOMAIN config.aliases THEN Some(config.aliases[alias]) ELSE None

\* str::split(c): the pieces between the occurrences of c
RECURSIVE split(_, _)
split(s, c) ==
    IF find(s, c) = 0 THEN <<s>>
    ELSE <<slice_to(s, find(s, c) - 1)>> \o split(slice_from(s, find(s, c) + 1), c)

\* cmd_range(range, format) up to the scan: Ok(start, end) stands for the listing
\* of the ports in use from start to end.
cmd_range(range) ==
    LET parts == split(range, "-")
        invalid == Err("InvalidPortRange", range)
    IN
    IF Len(parts) # 2 THEN invalid
    ELSE IF parse_u16(parts[1]) = None THEN invalid
    ELSE IF parse_u16(parts[2]) = None THEN invalid
    ELSE IF parse_u16(parts[1]).some > parse_u16(parts[2]).some THEN invalid
    ELSE Ok([start |-> parse_u16(parts[1]).some, end |-> parse_u16(parts[2]).some])

\* The second loop of run over the arguments: a number is a port, anything else
\* is looked up as an alias, and what is neither ends run with InvalidPort.
RECURSIVE resolve_ports(_, _, _)
resolve_ports(args, config, ports) ==
    IF args = <<>> THEN Ok(ports)
    ELSE IF parse_u16(Head(args)) # None
         THEN resolve_ports(Tail(args), config, Append(ports, parse_u16(Head(args)).some))
    ELSE IF resolve_alias(Head(args), config) # None
         THEN resolve_ports(Tail(args), config,
                            Append(ports, resolve_alias(Head(args), config).some))
    ELSE Err("InvalidPort", Head(args))

\* run, for a command line with port arguments and no subcommand: the first
\* argument that contains '-' is handed to cmd_range and ends run; otherwise the
\* arguments are resolved to ports, which are killed (--kill) or looked up.
run_ports(args, config, kill) ==
    LET ranges == {i \in 1..Len(args) : contains(args[i], <<"-">>)}
        first == CHOOSE i \in ranges : \A j \in ranges : i <= j
        resolved == resolve_ports(args, config, <<>>)
    IN
    IF ranges # {}
    THEN [route |-> "cmd_range", arg |-> args[first], result |-> cmd_range(args[first])]
    ELSE IF ~resolved.ok THEN [route |-> "return", result |-> resolved]
    ELSE IF kill THEN [route |-> "cmd_kill", ports |-> resolved.val]
    ELSE IF Len(resolved.val) = 1 THEN [route |-> "cmd_find", ports |-> resolved.val]
    ELSE [route |-> "cmd_find_multiple", ports |-> resolved.val]

\* The port arguments: numbers (one beyond u16), aliases with and without '-',
\* a range, a reversed range, and a name the configuration does not know.
ArgTexts ==
    {<<"3", "0", "0", "0">>, <<"7", "0", "0", "0", "0">>, <<"d", "b">>, <<"m", "y", "-", "a", "p", "p">>, <<"a", "p", "p", "_", "1">>, <<"3", "0", "0", "0", "-", "3", "0", "1", "0">>, <<"9", "-", "1">>, <<"n", "o", "p", "e">>}

\* The [aliases] table of the configuration file: empty, or three aliases.
Configs ==
    {[aliases |-> <<>>],
     [aliases |-> (<<"d", "b">> :> 5432) @@ (<<"m", "y", "-", "a", "p", "p">> :> 3000) @@ (<<"a", "p", "p", "_", "1">> :> 8080)]}

InitArgs ==
    /\ args_in \in [args : UNION {[1..n -> ArgTexts] : n \in 1..MaxArgs},
                    config : Configs,
                    kill : BOOLEAN]
    /\ args_result = None
    /\ PortsIdle /\ TreeIdle /\ KillIdle /\ SvcIdle /\ DockIdle /\ AddrIdle /\ EnumIdle
    /\ FlowIdle /\ RunIdle /\ LookIdle /\ IaIdle /\ TuiIdle

\* run handles the port arguments.
RunPorts ==
    /\ args_in # None
    /\ args_result = None
    /\ args_result' = Some(run_ports(args_in.args, args_in.config, args_in.kill))
    /\ UNCHANGED <<args_in, portVars, treeVars, killVars, svcVars, dockVars, addrVars,
                   enumVars, flowVars, runVars, lookVars, iaVars, tuiVars>>

NextArgs == RunPorts

SpecArgs == InitArgs /\ [][NextArgs]_vars

(***************************************************************************)
(* Container lookup: src/src/docker.rs (get_container_for_port)            *)
(***************************************************************************)

\* The length a container id is cut to.
ShortIdLen == 12

\* A port of bollard's ContainerSummary, and the summary itself (every field an
\* Option).
SummaryPort(public_port, private_port, typ) ==
    [public_port |-> public_port, private_port |-> private_port, typ |-> typ]
ContainerSummary(id, names, image, status, ports) ==
    [id |-> id, names |-> names, image |-> image, status |-> status, ports |-> ports]

\* get_container_for_port_async(port), given what the runtime answers: None when
\* the connection or the listing fails; otherwise the first container, in
\* listing order, with a port binding whose public port is `port`.
get_container_for_port_async(daemon, port) ==
    IF ~daemon.connects \/ ~daemon.listing.ok THEN None
    ELSE
    LET containers == daemon.listing.val
        publishes(c) ==
            /\ c.ports # None
            /\ \E k \in 1..Len(c.ports.some) : c.ports.some[k].public_port = Some(port)
        hits == {i \in 1..Len(containers) : publishes(containers[i])}
        container == containers[CHOOSE i \in hits : \A j \in hits : i <= j]
        ports == container.ports.some
        name == IF container.names = None \/ container.names.some = <<>>
                THEN <<"u", "n", "k", "n", "o", "w", "n">>
                ELSE trim_start_matches(container.names.some[1], "/")
        id_str == IF container.id = None THEN <<>> ELSE container.id.some
        short_id == IF Len(id_str) >= ShortIdLen THEN slice_to(id_str, ShortIdLen) ELSE id_str
    IN
    IF hits = {} THEN None
    ELSE Some(ContainerInfo(
            short_id,
            name,
            IF container.image = None THEN <<"u", "n", "k", "n", "o", "w", "n">> ELSE container.image.some,
            IF container.status = None THEN <<"u", "n", "k", "n", "o", "w", "n">> ELSE container.status.some,
            [k \in 1..Len(ports) |->
                PortMapping(ports[k].public_port, ports[k].private_port,
                            IF ports[k].typ = None THEN <<"t", "c", "p">>
                            ELSE to_lowercase(ports[k].typ.some))]))

\* get_container_for_port with no catch_unwind around the closure.
get_container_for_port_uncaught(daemon, port) ==
    IF ~daemon.available THEN None
    ELSE IF daemon.panics THEN Panic
    ELSE IF ~daemon.runtime_built THEN None
    ELSE get_container_for_port_async(daemon, port)

\* get_container_for_port(port): None without the runtime's socket; otherwise
\* the closure (build the async runtime, block on the async lookup) is run under
\* catch_unwind, and a panic caught there gives the default, None.
get_container_for_port(daemon, port) ==
    IF ~daemon.available THEN None
    ELSE LET caught == IF daemon.panics THEN Err("panic", Unit)
                       ELSE Ok(IF ~daemon.runtime_built THEN None
                               ELSE get_container_for_port_async(daemon, port))
         IN IF caught.ok THEN caught.val ELSE None

\* The listings of the runtime: none running; a database publishing 5432 listed
\* after a container with no ports and before a second publisher of 5432; and a
\* container with every optional field absent that publishes 3000.
Listings ==
    LET db == ContainerSummary(Some(<<"a", "b", "c", "1", "2", "3", "d", "e", "f", "4", "5", "6", "7", "8", "9", "a">>), Some(<<<<"/", "m", "y", "-", "d", "b">>>>),
                               Some(<<"p", "o", "s", "t", "g", "r", "e", "s", ":", "1", "5", "-", "a", "l", "p", "i", "n", "e">>), Some(<<"U", "p", " ", "2", " ", "h", "o", "u", "r", "s">>),
                               Some(<<SummaryPort(Some(5432), 5432, Some(<<"T", "C", "P">>))>>))
        pg2 == ContainerSummary(Some(<<"0", "1", "2", "3">>), Some(<<<<"/", "p", "g", "2">>, <<"/", "a", "l", "i", "a", "s">>>>),
                                Some(<<"p", "o", "s", "t", "g", "r", "e", "s", ":", "1", "6">>), Some(<<"U", "p", " ", "1", " ", "m", "i", "n", "u", "t", "e">>),
                                Some(<<SummaryPort(None, 5432, None),
                                       SummaryPort(Some(5432), 5432, None)>>))
        idle == ContainerSummary(Some(<<"f", "f", "f", "f">>), Some(<<<<"/", "i", "d", "l", "e">>>>), Some(<<"b", "u", "s", "y", "b", "o", "x">>),
                                 Some(<<"U", "p", " ", "1", " ", "m", "i", "n", "u", "t", "e">>), None)
        bare == ContainerSummary(None, None, None, None,
                                 Some(<<SummaryPort(Some(3000), 80, Some(<<"U", "D", "P">>))>>))
    IN {<<>>, <<idle, db, pg2>>, <<bare>>}

InitLook ==
    /\ look_in \in [port : {5432, 3000},
                    daemon : [available : BOOLEAN, panics : BOOLEAN, runtime_built : BOOLEAN,
                              connects : BOOLEAN,
                              listing : {Err("DockerError", "list")}
                                        \cup {Ok(l) : l \in Listings}],
                    force : BOOLEAN, dry_run : BOOLEAN,
                    port_info : {Ok(None), Ok(Some([pid |-> 101, process_name |-> "node"]))},
                    answer : {[ok |-> TRUE, text |-> <<"y", "e", "s", "\n">>], [ok |-> TRUE, text |-> <<"n", "o", "\n">>]}]
    /\ look_result = None
    /\ PortsIdle /\ TreeIdle /\ KillIdle /\ SvcIdle /\ DockIdle /\ AddrIdle /\ EnumIdle
    /\ FlowIdle /\ RunIdle /\ ArgsIdle /\ IaIdle /\ TuiIdle

\* cmd_kill(port, force, dry_run, false) in a build with container support: the
\* lookup, then the container path or the process path. A panic leaving the
\* lookup would end cmd_kill there.
CmdKillWithLookup ==
    /\ look_in # None
    /\ look_result = None
    /\ \E found \in {get_container_for_port(look_in.daemon, look_in.port)} :
        LET in == [port |-> look_in.port, force |-> look_in.force,
                   dry_run |-> look_in.dry_run, sigkill |-> FALSE, docker |-> TRUE,
                   container |-> found, port_info |-> look_in.port_info,
                   answer |-> look_in.answer, os |-> "OK", stop |-> Ok(Unit)]
        IN
        look_result' = [container |-> found,
                        flow |-> IF found = None \/ "some" \in DOMAIN found
                                 THEN cmd_kill(in)
                                 ELSE Outcome(<<>>, found)]
    /\ UNCHANGED <<look_in, portVars, treeVars, killVars, svcVars, dockVars, addrVars,
                   enumVars, flowVars, runVars, argsVars, iaVars, tuiVars>>

NextLook == CmdKillWithLookup

SpecLook == InitLook /\ [][NextLook]_vars

(***************************************************************************)
(* Interactive mode: src/src/interactive.rs (InteractiveApp)               *)
(***************************************************************************)

\* Bound: the number of characters typed into the filter prompt.
MaxFilterLen == 2

\* u16::to_string: the decimal digits
RECURSIVE to_string(_)
to_string(n) ==
    IF n < 10 THEN <<DigitChars[n + 1]>>
    ELSE to_string(n \div 10) \o <<DigitChars[(n % 10) + 1]>>

\* An entry of the list, with the fields the two user interfaces read.
ListedPort(port, protocol, pid, process_name, memory_mb) ==
    [port |-> port, protocol |-> protocol, pid |-> pid, process_name |-> process_name,
     local_address |-> <<"0", ".", "0", ".", "0", ".", "0", ":">> \o to_string(port), memory_mb |-> memory_mb]

\* What get_listening_ports can return while the interface runs: nothing, one
\* port, or the ports of a database, a resolver, a dev server and a capture
\* tool, ascending by port.
Listed ==
    LET dns == ListedPort(53, <<"U", "D", "P">>, 60, <<"d", "n", "s", "m", "a", "s", "q">>, 2)
        dev == ListedPort(3000, <<"T", "C", "P">>, 101, <<"n", "o", "d", "e">>, 120)
        db == ListedPort(5432, <<"T", "C", "P">>, 70, <<"p", "o", "s", "t", "g", "r", "e", "s">>, 300)
        cap == ListedPort(49152, <<"U", "D", "P">>, 80, <<"T", "c", "p", "d", "u", "m", "p">>, 120)
    IN {<<>>, <<dev>>, <<dns, dev, db>>, <<dns, dev, db, cap>>}

\* services::short_name(port) as text: the name of the first table entry of the
\* port (the names of the ports listed above).
short_name(port) ==
    LET texts == ("DNS" :> <<"D", "N", "S">>) @@ ("PostgreSQL" :> <<"P", "o", "s", "t", "g", "r", "e", "S", "Q", "L">>)
                 @@ ("Dev Server" :> <<"D", "e", "v", " ", "S", "e", "r", "v", "e", "r">>)
    IN IF lookup(port) = None THEN None ELSE Some(texts[lookup(port).some.name])

\* InteractiveApp::apply_filter
InteractiveApp_apply_filter(self) ==
    LET filter_lower == to_lowercase(self.filter)
        keep(p) ==
            \/ contains(to_string(p.port), filter_lower)
            \/ contains(to_lowercase(p.process_name), filter_lower)
            \/ contains(to_lowercase(p.protocol), filter_lower)
            \/ /\ short_name(p.port) # None
               /\ contains(to_lowercase(short_name(p.port).some), filter_lower)
        all == [i \in 1..Len(self.ports) |-> i - 1]
        filtered_indices ==
            IF self.filter = <<>> THEN all
            ELSE SelectSeq(all, LAMBDA i : keep(self.ports[i + 1]))
    IN [self EXCEPT !.filtered_indices = filtered_indices,
                    !.selected = IF self.selected >= Len(filtered_indices)
                                 THEN 0 ELSE self.selected]

\* InteractiveApp::refresh, given what get_listening_ports returns: Ok(self) or
\* the error, with self untouched.
InteractiveApp_refresh(self, listing) ==
    IF ~listing.ok THEN listing
    ELSE LET a == InteractiveApp_apply_filter([self EXCEPT !.ports = listing.val]) IN
         Ok([a EXCEPT !.selected = IF a.selected >= Len(a.filtered_indices)
                                      /\ a.filtered_indices # <<>>
                                   THEN Len(a.filtered_indices) - 1 ELSE a.selected,
                      !.status = Some("Refreshed")])

\* InteractiveApp::new
InteractiveApp_new(listing) ==
    [ports |-> listing,
     selected |-> 0,
     filter |-> <<>>,
     filtered_indices |-> [i \in 1..Len(listing) |-> i - 1],
     show_help |-> FALSE,
     status |-> None]

\* handle_key for a key of the main loop; env holds the terminal height, the key
\* that answers the kill prompt, and what kill_process and get_listening_ports
\* return. The result is the app and where the loop is next: reading keys, in
\* the filter prompt, left by the user ("quit") or ended by an error ("failed").
handle_key(self0, key, env) ==
    LET self == [self0 EXCEPT !.status = None]
        n == Len(self.filtered_indices)
        page == IF env.height > 10 THEN env.height - 10 ELSE 0
        stay(a) == [app |-> a, pc |-> "keys"]
        refreshed(a) ==
            LET r == InteractiveApp_refresh(a, env.listing) IN
            IF r.ok THEN stay(r.val) ELSE [app |-> a, pc |-> "failed"]
        selected_port == IF self.selected < n /\ self.filtered_indices[self.selected + 1] < Len(self.ports)
                         THEN Some(self.ports[self.filtered_indices[self.selected + 1] + 1])
                         ELSE None
    IN
    IF self.show_help THEN stay([self EXCEPT !.show_help = FALSE])
    ELSE CASE key \in {"q", "Esc", "Ctrl+c"} -> [app |-> self, pc |-> "quit"]
      [] key \in {"Up", "k"} ->
            stay([self EXCEPT !.selected = IF self.selected > 0 THEN self.selected - 1
                                           ELSE self.selected])
      [] key \in {"Down", "j"} ->
            stay([self EXCEPT !.selected = IF self.selected + 1 < n THEN self.selected + 1
                                           ELSE self.selected])
      [] key \in {"Home", "g"} -> stay([self EXCEPT !.selected = 0])
      [] key \in {"End", "G"} ->
            stay([self EXCEPT !.selected = IF n # 0 THEN n - 1 ELSE self.selected])
      [] key = "PageUp" ->
            stay([self EXCEPT !.selected = IF self.selected > page THEN self.selected - page
                                           ELSE 0])
      [] key = "PageDown" ->
            LET last == IF n > 0 THEN n - 1 ELSE 0 IN
            stay([self EXCEPT !.selected = IF self.selected + page < last
                                           THEN self.selected + page ELSE last])
      [] key \in {"Enter", "i"} -> stay(self)
      [] key \in {"Ctrl+k", "x", "Delete"} ->
            IF selected_port = None THEN stay(self)
            ELSE IF env.answer \notin {"y", "Y"} THEN stay([self EXCEPT !.status = Some("Cancelled")])
            ELSE IF ~env.kill.ok THEN stay([self EXCEPT !.status = Some("Error")])
            ELSE refreshed([self EXCEPT !.status = Some("Killed")])
      [] key \in {"r", "F5"} -> refreshed(self)
      [] key \in {"?", "F1"} -> stay([self EXCEPT !.show_help = TRUE])
      [] key = "/" -> [app |-> [self EXCEPT !.filter = <<>>], pc |-> "filter"]
      [] key = "c" ->
            stay([InteractiveApp_apply_filter([self EXCEPT !.filter = <<>>])
                    EXCEPT !.status = Some("Filter cleared")])
      [] key = "t" ->
            stay(InteractiveApp_apply_filter(
                    [self EXCEPT !.filter = IF self.filter = <<>> THEN <<"T", "C", "P">>
                                            ELSE IF self.filter = <<"T", "C", "P">> THEN <<"U", "D", "P">>
                                            ELSE <<>>]))
      [] OTHER -> stay(self)

\* One key read by the loop of enter_filter_mode: Enter leaves; Esc clears the
\* filter, applies it and leaves; Backspace and a character edit the filter,
\* which is then applied; any other key only applies it.
filter_key(self, key) ==
    CASE key.code = "Enter" -> [app |-> self, pc |-> "keys"]
      [] key.code = "Esc" ->
            [app |-> InteractiveApp_apply_filter([self EXCEPT !.filter = <<>>]), pc |-> "keys"]
      [] key.code = "Backspace" ->
            [app |-> InteractiveApp_apply_filter(
                        [self EXCEPT !.filter = IF self.filter = <<>> THEN <<>>
                                                ELSE slice_to(self.filter, Len(self.filter) - 1)]),
             pc |-> "filter"]
      [] key.code = "Char" ->
            [app |-> InteractiveApp_apply_filter([self EXCEPT !.filter = Append(self.filter, key.c)]),
             pc |-> "filter"]
      [] OTHER -> [app |-> InteractiveApp_apply_filter(self), pc |-> "filter"]

\* The keys of the main loop, and the characters typed into the filter prompt.
Keys ==
    {"q", "Up", "j", "g", "G", "PageUp", "PageDown", "i", "x", "r", "?", "/", "c", "t", "F2"}
FilterChars == {"5", "P", "d"}

InitIa ==
    /\ iapp \in {InteractiveApp_new(l) : l \in Listed}
    /\ ia_pc = "keys"
    /\ PortsIdle /\ TreeIdle /\ KillIdle /\ SvcIdle /\ DockIdle /\ AddrIdle /\ EnumIdle
    /\ FlowIdle /\ RunIdle /\ ArgsIdle /\ LookIdle /\ TuiIdle

\* The main loop reads a key and handles it; an error ends the loop.
HandleKey ==
    /\ ia_pc = "keys"
    /\ \E key \in Keys,
          env \in [height : {11, 24}, answer : {"y", "n"},
                   kill : {Ok(Unit), Err("ProcessNotFound", 101)},
                   listing : {Err("NetworkError", "ss")} \cup {Ok(l) : l \in Listed}] :
        \E r \in {handle_key(iapp, key, env)} :
            iapp' = r.app /\ ia_pc' = r.pc
    /\ UNCHANGED <<portVars, treeVars, killVars, svcVars, dockVars, addrVars, enumVars,
                   flowVars, runVars, argsVars, lookVars, tuiVars>>

\* The loop of enter_filter_mode reads a key.
FilterKey ==
    /\ ia_pc = "filter"
    /\ \E key \in {[code |-> k, c |-> ""] : k \in {"Enter", "Esc", "Backspace", "Tab"}}
                  \cup {[code |-> "Char", c |-> x] :
                            x \in {y \in FilterChars : Len(iapp.filter) < MaxFilterLen}} :
        \E r \in {filter_key(iapp, key)} :
            iapp' = r.app /\ ia_pc' = r.pc
    /\ UNCHANGED <<portVars, treeVars, killVars, svcVars, dockVars, addrVars, enumVars,
                   flowVars, runVars, argsVars, lookVars, tuiVars>>

NextIa == HandleKey \/ FilterKey

SpecIa == InitIa /\ [][NextIa]_vars

(***************************************************************************)
(* Dashboard: src/src/tui/app.rs (App)                                     *)
(***************************************************************************)

\* The number of rows page_down and page_up move by.
PageRows == 10

\* The characters the process names are made of, in the order of their bytes.
AsciiOrder == <<"-", ".">> \o DigitChars \o UpperChars \o LowerChars
byte(c) == CHOOSE i \in 1..Len(AsciiOrder) : AsciiOrder[i] = c

\* a.cmp(&b) == Ordering::Less, for strings: the bytes compared in order.
str_lt(a, b) ==
    \E k \in 1..Len(b) :
        /\ k - 1 <= Len(a)
        /\ \A j \in 1..(k - 1) : a[j] = b[j]
        /\ k > Len(a) \/ byte(a[k]) < byte(b[k])

\* The element of a set of one element: the({e(x) : x \in {v}}) is e with x
\* naming the value of v, computed once.
the(S) == CHOOSE x \in S : TRUE

\* A stable sort of v by the keys given for its entries (slice::sort_by_key):
\* an entry goes after those of a smaller key and those of its key before it.
stable_sort(v, keys) ==
    LET n == Len(v)
        rank(i) == 1 + Cardinality({j \in 1..n :
                            keys[j] < keys[i] \/ (keys[j] = keys[i] /\ j < i)})
    IN the({SubSeq([k \in 1..n |-> v[CHOOSE i \in 1..n : pos[i] = k]], 1, n) :
                pos \in {SubSeq([i \in 1..n |-> rank(i)], 1, n)}})

\* set_status(msg): status_message = Some(msg); a message is its fixed part and
\* the value formatted into it.
set_status(self, msg) == [self EXCEPT !.status_message = Some(msg)]

\* App::apply_filters: the protocol, text, Docker and critical filters over
\* all_ports, the sort, and the selection brought back into the list.
apply_filters(app0) ==
    the({
        LET proto_match(p) ==
                CASE self.filter_mode = "All" -> TRUE
                  [] self.filter_mode = "TcpOnly" -> to_uppercase(p.protocol) = <<"T", "C", "P">>
                  [] self.filter_mode = "UdpOnly" -> to_uppercase(p.protocol) = <<"U", "D", "P">>
            text_match(p) ==
                \/ self.filter_text = <<>>
                \/ \E search \in {to_lowercase(self.filter_text)} :
                    \E field \in {to_string(p.port), to_lowercase(p.process_name),
                                  to_string(p.pid), to_lowercase(p.local_address),
                                  to_lowercase(p.protocol)} :
                        contains(field, search)
            docker_match(p) ==
                \/ ~self.docker_only
                \/ \E name \in {to_lowercase(p.process_name)} :
                    \/ contains(name, <<"d", "o", "c", "k", "e", "r">>)
                    \/ contains(name, <<"c", "o", "n", "t", "a", "i", "n", "e", "r", "d">>)
                    \/ contains(name, <<"c", "o", "m", ".", "d", "o", "c", "k", "e", "r">>)
                    \/ name = <<"v", "p", "n", "k", "i", "t", ".", "e", "x", "e">>
                    \/ name = <<"v", "p", "n", "k", "i", "t">>
            critical_match(p) == ~self.critical_only \/ requires_confirmation(p.port)
            sort_key(filtered, i) ==
                CASE self.sort_mode = "Port" -> filtered[i].port
                  [] self.sort_mode = "Process" ->
                        Cardinality({j \in 1..Len(filtered) :
                            str_lt(filtered[j].process_name, filtered[i].process_name)})
                  [] self.sort_mode = "Memory" -> 0 - filtered[i].memory_mb
                  [] self.sort_mode = "Pid" -> filtered[i].pid
            sorted(filtered) ==
                the({stable_sort(filtered, keys) :
                        keys \in {SubSeq([i \in 1..Len(filtered) |-> sort_key(filtered, i)],
                                         1, Len(filtered))}})
            selected_in(ports) ==
                [self EXCEPT !.ports = ports,
                             !.selected = IF ports = <<>> THEN 0
                                          ELSE IF self.selected >= Len(ports)
                                               THEN Len(ports) - 1
                                          ELSE self.selected]
        IN the({the({selected_in(ports) : ports \in {sorted(filtered)}}) :
                    filtered \in {SelectSeq(self.all_ports,
                                            LAMBDA p : proto_match(p) /\ text_match(p)
                                                       /\ docker_match(p) /\ critical_match(p))}})
        : self \in {app0}})

\* App::refresh_ports, given what get_listening_ports returns (an error gives
\* the empty list).
refresh_ports(self, listing) ==
    set_status(apply_filters([self EXCEPT !.all_ports = IF listing.ok THEN listing.val
                                                        ELSE <<>>]),
               <<"Refreshed">>)

\* App::apply_filter, with the text of the search input
apply_filter(self, filter_input) ==
    the({set_status(a, IF a.filter_text = <<>> THEN <<"Search cleared", Len(a.ports)>>
                       ELSE IF a.ports = <<>> THEN <<"No matches">>
                       ELSE <<"Found", Len(a.ports)>>) :
            a \in {apply_filters([self EXCEPT !.filter_text = filter_input])}})

\* App::clear_filter
clear_filter(self) ==
    the({set_status(a, <<"Filter cleared", Len(a.ports)>>) :
            a \in {apply_filters([self EXCEPT !.filter_text = <<>>])}})

\* page_down with no clamp at the last row.
page_down_unclamped(self) ==
    IF self.ports = <<>> THEN self
    ELSE [self EXCEPT !.selected = self.selected + PageRows]

\* App::next, previous, page_down, page_up, first, last
next(self) ==
    IF self.ports = <<>> THEN self
    ELSE [self EXCEPT !.selected = (self.selected + 1) % Len(self.ports)]
previous(self) ==
    IF self.ports = <<>> THEN self
    ELSE [self EXCEPT !.selected = IF self.selected >= 1 THEN self.selected - 1
                                   ELSE Len(self.ports) - 1]
page_down(self) ==
    IF self.ports = <<>> THEN self
    ELSE [self EXCEPT !.selected = IF self.selected + PageRows < Len(self.ports) - 1
                                   THEN self.selected + PageRows ELSE Len(self.ports) - 1]
page_up(self) ==
    IF self.ports = <<>> THEN self
    ELSE [self EXCEPT !.selected = IF self.selected > PageRows THEN self.selected - PageRows
                                   ELSE 0]
first(self) == [self EXCEPT !.selected = 0]
last(self) ==
    IF self.ports = <<>> THEN self ELSE [self EXCEPT !.selected = Len(self.ports) - 1]

\* App::cycle_filter and App::cycle_sort
cycle_filter(self) ==
    LET mode == CASE self.filter_mode = "All" -> "TcpOnly"
                  [] self.filter_mode = "TcpOnly" -> "UdpOnly"
                  [] self.filter_mode = "UdpOnly" -> "All"
    IN the({set_status(a, <<"Filter", Len(a.ports)>>) :
                a \in {apply_filters([self EXCEPT !.filter_mode = mode])}})
cycle_sort(self) ==
    LET mode == CASE self.sort_mode = "Port" -> "Process"
                  [] self.sort_mode = "Process" -> "Memory"
                  [] self.sort_mode = "Memory" -> "Pid"
                  [] self.sort_mode = "Pid" -> "Port"
    IN set_status(apply_filters([self EXCEPT !.sort_mode = mode]), <<"Sort">>)

\* App::toggle_docker_filter and App::toggle_critical_filter: each clears the other.
toggle_docker_filter(self) ==
    the({set_status(a, <<"Docker", Len(a.ports)>>) :
            a \in {apply_filters([self EXCEPT !.docker_only = ~self.docker_only,
                                              !.critical_only = FALSE])}})
toggle_critical_filter(self) ==
    the({set_status(a, <<"Critical", Len(a.ports)>>) :
            a \in {apply_filters([self EXCEPT !.critical_only = ~self.critical_only,
                                              !.docker_only = FALSE])}})

GetListeningPortsCall == [call |-> "get_listening_ports"]

\* kill_selected asking for no confirmation on any port.
kill_selected_unconfirmed(self, kill, listing) ==
    IF self.selected >= Len(self.ports) THEN [app |-> self, calls |-> <<>>]
    ELSE LET port_info == self.ports[self.selected + 1] IN
         IF kill.ok
         THEN [app |-> refresh_ports(set_status(self, <<"Killed", port_info.pid>>), listing),
               calls |-> <<KillCall(port_info.pid, FALSE), GetListeningPortsCall>>]
         ELSE [app |-> set_status(self, <<"Failed", kill.err>>),
               calls |-> <<KillCall(port_info.pid, FALSE)>>]

\* App::kill_selected, given what kill_process and get_listening_ports return:
\* the App after it and the calls it made to the outside.
kill_selected(self, kill, listing) ==
    IF self.selected >= Len(self.ports) THEN [app |-> self, calls |-> <<>>]
    ELSE LET port_info == self.ports[self.selected + 1] IN
         IF requires_confirmation(port_info.port)
         THEN [app |-> set_status(self, <<"critical", port_info.port>>), calls |-> <<>>]
         ELSE IF kill.ok
         THEN [app |-> refresh_ports(set_status(self, <<"Killed", port_info.pid>>), listing),
               calls |-> <<KillCall(port_info.pid, FALSE), GetListeningPortsCall>>]
         ELSE [app |-> set_status(self, <<"Failed", kill.err>>),
               calls |-> <<KillCall(port_info.pid, FALSE)>>]

\* App::new
App_new ==
    [all_ports |-> <<>>, ports |-> <<>>, selected |-> 0,
     filter_mode |-> "All", sort_mode |-> "Port", filter_text |-> <<>>,
     docker_only |-> FALSE, critical_only |-> FALSE, status_message |-> None]

\* What get_listening_ports returns to the dashboard: an error, nothing, one
\* port, three ports, or twelve (more than a page), ascending by port.
DashboardListed ==
    LET row(port, protocol, pid, name, mem) == ListedPort(port, protocol, pid, name, mem)
        dns == row(53, <<"U", "D", "P">>, 60, <<"d", "n", "s", "m", "a", "s", "q">>, 2)
        dev == row(3000, <<"T", "C", "P">>, 101, <<"n", "o", "d", "e">>, 120)
        db == row(5432, <<"t", "c", "p">>, 70, <<"p", "o", "s", "t", "g", "r", "e", "s">>, 300)
    IN {Err("NetworkError", "ss"), Ok(<<>>), Ok(<<dev>>), Ok(<<dns, dev, db>>),
        Ok(<<row(22, <<"T", "C", "P">>, 900, <<"s", "s", "h", "d">>, 5), dns, row(80, <<"T", "C", "P">>, 810, <<"n", "g", "i", "n", "x">>, 40),
             row(2375, <<"T", "C", "P">>, 15, <<"d", "o", "c", "k", "e", "r", "d">>, 90), dev,
             row(3306, <<"T", "C", "P">>, 33, <<"m", "y", "s", "q", "l", "d">>, 400), db,
             row(5353, <<"U", "D", "P">>, 61, <<"A", "v", "a", "h", "i">>, 2), row(6379, <<"T", "C", "P">>, 63, <<"r", "e", "d", "i", "s", "-", "s", "e", "r", "v", "e", "r">>, 10),
             row(8080, <<"T", "C", "P">>, 102, <<"n", "o", "d", "e">>, 120),
             row(9000, <<"T", "C", "P">>, 16, <<"c", "o", "m", ".", "d", "o", "c", "k", "e", "r", ".", "b", "a", "c", "k", "e", "n", "d">>, 300),
             row(49152, <<"U", "D", "P">>, 80, <<"T", "c", "p", "d", "u", "m", "p">>, 120)>>)}

InitTui ==
    /\ app = App_new
    /\ tui_last = None
    /\ PortsIdle /\ TreeIdle /\ KillIdle /\ SvcIdle /\ DockIdle /\ AddrIdle /\ EnumIdle
    /\ FlowIdle /\ RunIdle /\ ArgsIdle /\ LookIdle /\ IaIdle

\* A key that moves the selection.
Navigate ==
    /\ app # None
    /\ app' \in {next(app), previous(app), page_down(app), page_up(app), first(app), last(app)}
    /\ tui_last' = None
    /\ UNCHANGED <<portVars, treeVars, killVars, svcVars, dockVars, addrVars, enumVars,
                   flowVars, runVars, argsVars, lookVars, iaVars>>

\* A key that changes what is listed or its order: the protocol filter, the
\* sort, the Docker and critical filters, a search entered or cleared.
ChangeView ==
    /\ app # None
    /\ app' \in {cycle_filter(app), cycle_sort(app), toggle_docker_filter(app),
                 toggle_critical_filter(app), clear_filter(app)}
                \cup {apply_filter(app, t) : t \in {<<>>, <<"5">>, <<"N", "O", "D", "E">>}}
    /\ tui_last' = None
    /\ UNCHANGED <<portVars, treeVars, killVars, svcVars, dockVars, addrVars, enumVars,
                   flowVars, runVars, argsVars, lookVars, iaVars>>

\* The start of the dashboard, 'r', or the periodic refresh.
RefreshPorts ==
    /\ app # None
    /\ \E listing \in DashboardListed : app' = refresh_ports(app, listing)
    /\ tui_last' = None
    /\ UNCHANGED <<portVars, treeVars, killVars, svcVars, dockVars, addrVars, enumVars,
                   flowVars, runVars, argsVars, lookVars, iaVars>>

\* 'x': kill_selected.
KillSelected ==
    /\ app # None
    /\ \E kill \in {Ok(Unit), Err("ProcessNotFound", Unit), Err("PermissionDenied", Unit)},
          listing \in DashboardListed :
        \E r \in {kill_selected(app, kill, listing)} :
            /\ app' = r.app
            /\ tui_last' = [op |-> "kill_selected", before |-> app, kill |-> kill,
                            calls |-> r.calls]
    /\ UNCHANGED <<portVars, treeVars, killVars, svcVars, dockVars, addrVars, enumVars,
                   flowVars, runVars, argsVars, lookVars, iaVars>>

NextTui == Navigate \/ ChangeView \/ RefreshPorts \/ KillSelected

SpecTui == InitTui /\ [][NextTui]_vars

(***************************************************************************)
(* Claims about the port correlator (checked under SpecPorts)              *)
(***************************************************************************)
PortsReturned == ports_result # None /\ ports_result.ok
KnownRows == {i \in 1..Len(connections.val) : connections.val[i].pid # None}
RowsOn(p) == {i \in KnownRows : connections.val[i].local_port = p}
FirstRowOn(p) == CHOOSE i \in RowsOn(p) : \A j \in RowsOn(p) : i <= j

\* C1: the list get_listening_ports returns is strictly ascending by port, so
\* no port appears twice.
C1_StrictlyAscending ==
    PortsReturned =>
        \A i \in 1..(Len(ports_result.val) - 1) :
            ports_result.val[i].port < ports_result.val[i + 1].port

\* C1 witness: a table whose rows are out of port order and repeat a port, all
\* with a known pid, has been correlated into two entries.
C1_Witness ==
    /\ PortsReturned
    /\ Len(ports_result.val) = 2
    /\ Cardinality(KnownRows) = 3
    /\ connections.val[1].local_port > connections.val[2].local_port

\* C2: of the rows with a known pid that share a port, the entry kept is the one
\* built from the first in enumeration order (TCP rows come before UDP rows), so
\* a UDP row is dropped whenever a TCP row with a known pid has the same port.
C2_FirstRowWins ==
    PortsReturned =>
        \A k \in 1..Len(ports_result.val) :
            LET e == ports_result.val[k] IN
            /\ RowsOn(e.port) # {}
            /\ e = MakePortInfo(sys, connections.val[FirstRowOn(e.port)])
            /\ (\E i \in RowsOn(e.port) : connections.val[i].protocol = "TCP")
                    => e.protocol = "TCP"

\* C2 witness: a TCP row and a UDP row of different owners share a port, a row of
\* a smaller port comes after them, and the entry kept is the TCP owner's.
C2_Witness ==
    /\ PortsReturned
    /\ \E i, j \in KnownRows :
        /\ i < j
        /\ connections.val[i].local_port = connections.val[j].local_port
        /\ connections.val[i].protocol = "TCP"
        /\ connections.val[j].protocol = "UDP"
        /\ connections.val[i].pid # connections.val[j].pid
        /\ \E k \in 1..Len(ports_result.val) :
            /\ ports_result.val[k].port = connections.val[i].local_port
            /\ ports_result.val[k].pid = connections.val[i].pid.some
    /\ Len(ports_result.val) = 2

\* C3: the ports of the result are exactly the local ports of the rows whose pid
\* is known, and each entry carries the pid of such a row of its port.
C3_PortsOfKnownOwners ==
    PortsReturned =>
        /\ {ports_result.val[k].port : k \in 1..Len(ports_result.val)}
                = {connections.val[i].local_port : i \in KnownRows}
        /\ \A k \in 1..Len(ports_result.val) :
            \E i \in RowsOn(ports_result.val[k].port) :
                ports_result.val[k].pid = connections.val[i].pid.some
        /\ \A i \in 1..Len(connections.val) :
            (RowsOn(connections.val[i].local_port) = {})
                => \A k \in 1..Len(ports_result.val) :
                        ports_result.val[k].port # connections.val[i].local_port

\* C3 witness: a row without a pid comes first, on a port no other row has, and a
\* later row with a pid has its entry.
C3_Witness ==
    /\ PortsReturned
    /\ Len(connections.val) = 3
    /\ connections.val[1].pid = None
    /\ RowsOn(connections.val[1].local_port) = {}
    /\ connections.val[3].pid # None
    /\ Len(ports_result.val) = 1
    /\ ports_result.val[1].pid = connections.val[3].pid.some

\* C17: on one snapshot, get_port_info(p) is Some(e) exactly when the list of
\* get_listening_ports has an entry e of port p, equal to it in every field, and
\* None exactly when the list has no entry of port p.
C17_PortInfoIsTheListEntry ==
    (PortsReturned /\ port_info_result # None) =>
        /\ port_info_result.ok
        /\ \A k \in 1..Len(ports_result.val) :
            ports_result.val[k].port = port_arg
                => port_info_result.val = Some(ports_result.val[k])
        /\ (\A k \in 1..Len(ports_result.val) : ports_result.val[k].port # port_arg)
                => port_info_result.val = None

\* C17 witness: the list has two entries and the port asked for is that of the
\* second, which is what get_port_info returned.
C17_Witness ==
    /\ PortsReturned
    /\ port_info_result # None
    /\ Len(ports_result.val) = 2
    /\ port_arg = ports_result.val[2].port
    /\ port_info_result = Ok(Some(ports_result.val[2]))

\* C18: enrichment never fails. When the pid of a row is not in the process
\* table, the entry of its port still exists and carries the enumerated pid (of
\* the first row of the port), with name "<unknown>", no path, no user, memory,
\* CPU and uptime 0 and no parent; get_listening_ports returns Ok whenever the
\* enumeration did.
C18_VanishedOwnerGetsSentinel ==
    (ports_result # None /\ connections.ok) =>
        /\ ports_result.ok
        /\ \A i \in KnownRows :
            \E k \in 1..Len(ports_result.val) :
                LET e == ports_result.val[k]
                    first_row == connections.val[FirstRowOn(connections.val[i].local_port)]
                IN
                /\ e.port = connections.val[i].local_port
                /\ e.pid = first_row.pid.some
                /\ process(sys, e.pid) = None =>
                    /\ e.process_name = "<unknown>"
                    /\ e.process_path = None
                    /\ e.user = None
                    /\ e.memory_mb = 0
                    /\ e.cpu_percent = 0
                    /\ e.uptime_secs = 0
                    /\ e.parent_pid = None
                    /\ e.parent_name = None

\* C18 witness: of two entries returned, one belongs to a process that is in the
\* table and the other to a pid that is not, which carries the sentinel.
C18_Witness ==
    /\ PortsReturned
    /\ Len(ports_result.val) = 2
    /\ \E k, l \in 1..2 :
        /\ process(sys, ports_result.val[k].pid) = None
        /\ ports_result.val[k].process_name = "<unknown>"
        /\ ports_result.val[k].pid \in PidSamples
        /\ process(sys, ports_result.val[l].pid) # None
        /\ ports_result.val[l].process_name = "node"

(***************************************************************************)
(* Claims about the termination executor (checked under SpecKill)          *)
(***************************************************************************)
KillErrors == {"PermissionDenied", "ProcessNotFound", "KillError"}

\* Whether the OS accepted the request of a call, and how it rejected it.
Accepted(c) ==
    IF platform = "unix" THEN c.os = "OK" ELSE c.os.spawned /\ c.os.success
PermissionFailure(c) ==
    IF platform = "unix" THEN c.os = "EPERM"
    ELSE c.os.spawned /\ ~c.os.success /\ "Access is denied" \in c.os.stderr
NoSuchProcess(c) ==
    IF platform = "unix" THEN c.os = "ESRCH"
    ELSE c.os.spawned /\ ~c.os.success /\ c.os.stderr = {"not found"}

\* C5: kill_process returns Ok when the OS accepts the request; otherwise
\* PermissionDenied for a permission failure, ProcessNotFound(pid) for a
\* nonexistent process and KillError(pid, message) for every other error, the
\* pid carried being the pid passed in; there is no other outcome.
C5_KillErrorMapping ==
    /\ Len(kill_results) = Len(kill_calls)
    /\ \A i \in 1..Len(kill_calls) :
        LET c == kill_calls[i]
            r == kill_results[i]
        IN
        /\ r.ok <=> Accepted(c)
        /\ r.ok => r = Ok(Unit)
        /\ ~r.ok => r.err \in KillErrors
        /\ PermissionFailure(c) => r.err = "PermissionDenied"
        /\ NoSuchProcess(c) => r.err = "ProcessNotFound" /\ r.payload = c.pid
        /\ (~Accepted(c) /\ ~PermissionFailure(c) /\ ~NoSuchProcess(c))
                => r.err = "KillError" /\ r.payload[1] = c.pid

\* C5 witness: a call for a pid above i32::MAX was answered ESRCH and returned
\* ProcessNotFound of that pid, and another call was refused for permission.
C5_Witness ==
    /\ platform = "unix"
    /\ Len(kill_calls) = 2
    /\ kill_calls[1].pid.hi >= TwoPow15
    /\ kill_calls[1].os = "ESRCH"
    /\ kill_results[1].err = "ProcessNotFound"
    /\ kill_results[1].payload = kill_calls[1].pid
    /\ kill_calls[2].os = "EPERM"
    /\ kill_results[2].err = "PermissionDenied"

\* C6: a call to kill_process issues exactly one termination request, whatever
\* the outcome; on Unix it is SIGTERM when force is false, SIGKILL when true.
C6_OneRequestPerCall ==
    /\ Len(os_requests) = Len(kill_calls)
    /\ platform = "unix" =>
        \A i \in 1..Len(kill_calls) :
            /\ i <= Len(os_requests)
            /\ os_requests[i].call = "kill"
            /\ os_requests[i].signal =
                    IF kill_calls[i].force THEN "SIGKILL" ELSE "SIGTERM"

\* C6 witness: a forced call that the OS refused and an unforced one that it
\* accepted left one SIGKILL and one SIGTERM request.
C6_Witness ==
    /\ platform = "unix"
    /\ Len(kill_calls) = 2
    /\ kill_calls[1].force /\ kill_calls[1].os = "EPERM"
    /\ ~kill_calls[2].force /\ kill_calls[2].os = "OK"
    /\ os_requests = <<[call |-> "kill", target |-> as_i32(kill_calls[1].pid),
                        signal |-> "SIGKILL"],
                       [call |-> "kill", target |-> as_i32(kill_calls[2].pid),
                        signal |-> "SIGTERM"]>>

(***************************************************************************)
(* Claims about the service classifier (checked under SpecSvc)             *)
(***************************************************************************)
Classified == svc_pc = "done"
Is(name, risk) ==
    svc_lookup # None /\ svc_lookup.some.name = name /\ svc_lookup.some.risk = risk

\* C7: requires_confirmation(p) is true exactly when lookup(p) is a service of
\* risk High or Critical; false when lookup(p) is None or the risk is Low or
\* Medium (and so for the ports of test_requires_confirmation).
C7_ConfirmIffHighOrCritical ==
    Classified =>
        /\ svc_confirm <=>
                (svc_lookup # None /\ svc_lookup.some.risk \in {"High", "Critical"})
        /\ svc_lookup = None => ~svc_confirm
        /\ (svc_lookup # None /\ svc_lookup.some.risk \in {"Low", "Medium"})
                => ~svc_confirm
        /\ svc_port \in {3306, 22, 6379} => svc_confirm
        /\ svc_port \in {3000, 65432} => ~svc_confirm

\* C7 witness: a High service (Redis, 6379) has been classified and requires
\* confirmation.
C7_Witness ==
    /\ Classified
    /\ svc_port = 6379
    /\ svc_lookup # None /\ svc_lookup.some.risk = "High"
    /\ svc_confirm

\* C8: lookup returns MySQL/Critical for 3306, PostgreSQL/Critical for 5432,
\* Redis/High for 6379, Dev Server/Low for 3000, None for 54321, and Some
\* exactly for the ports the table lists.
C8_LookupTable ==
    Classified =>
        /\ svc_port = 3306 => Is("MySQL", "Critical")
        /\ svc_port = 5432 => Is("PostgreSQL", "Critical")
        /\ svc_port = 6379 => Is("Redis", "High")
        /\ svc_port = 3000 => Is("Dev Server", "Low")
        /\ svc_port = 54321 => svc_lookup = None
        /\ svc_lookup # None <=>
                svc_port \in {KNOWN_SERVICES[i].port : i \in 1..Len(KNOWN_SERVICES)}
        /\ svc_lookup # None => svc_lookup.some.port = svc_port

\* C8 witness: 3306 has been looked up and is MySQL.
C8_Witness == Classified /\ svc_port = 3306 /\ Is("MySQL", "Critical")

\* C9: no two entries of the table have the port looked up, so what lookup
\* returns for it is what every entry of that port says, whatever their order.
C9_TableIsAMap ==
    Classified =>
        \A i \in 1..Len(KNOWN_SERVICES) :
            KNOWN_SERVICES[i].port = svc_port =>
                /\ svc_lookup = Some(KNOWN_SERVICES[i])
                /\ \A j \in 1..Len(KNOWN_SERVICES) :
                        KNOWN_SERVICES[j].port = svc_port => j = i

(***************************************************************************)
(* Claims about the container identity (checked under SpecDocker)          *)
(***************************************************************************)
Compared == dock_pc = "done"

\* C10: a.matches(b) is true exactly when a and b have the same name and the
\* same image, whatever their id, status and ports; matches is reflexive,
\* symmetric and transitive.
C10_MatchesIsNameAndImage ==
    Compared =>
        /\ match_res.ab <=> (ca.name = cb.name /\ ca.image = cb.image)
        /\ match_res.aa
        /\ match_res.ab <=> match_res.ba
        /\ (match_res.ab /\ match_res.bc) => match_res.ac

\* C10 witness: two containers of the same name and image that differ in id,
\* status and ports have been compared and match; a third one does not.
C10_Witness ==
    /\ Compared
    /\ ca.id # cb.id /\ ca.status # cb.status /\ ca.ports # cb.ports
    /\ ca.name = cb.name /\ ca.image = cb.image
    /\ match_res.ab
    /\ cc.id = cb.id /\ cc.name # cb.name
    /\ ~match_res.bc


(***************************************************************************)
(* Claims about the stable key (checked under SpecKeys)                    *)
(***************************************************************************)
\* C11: two containers have the same stable key if and only if matches holds of
\* them: containers that differ in name or in image never share a key.
C11_KeyEqualIffMatches ==
    dock_pc = "done" => ((match_res.key_a = match_res.key_b) <=> match_res.matches)

(***************************************************************************)
(* Claims about address parsing (checked under SpecAddr)                   *)
(***************************************************************************)
\* The text after the last ':' of the address, and whether it is a number the
\* alphabet of the other texts can write (digits only, never past a u16).
AddrTail == slice_from(addr_in.text, rfind(addr_in.text, ":") + 1)
AddrTailIsNumber ==
    AddrTail # <<>> /\ \A i \in 1..Len(AddrTail) : AddrTail[i] = "1"

\* C15: "ip:port", "[ip]:port" and "*:port" parse to (ip, port), the brackets
\* removed, when the text after the last ':' is a number that fits a u16; a
\* text with no ':' or whose text after the last ':' is no such number parses to
\* None.
C15_AddressSplitAtLastColon ==
    addr_pc = "done" =>
        /\ addr_in.form # "other" =>
            addr_result = (IF addr_in.port = None THEN None
                           ELSE Some(<<addr_in.ip, addr_in.port.some>>))
        /\ addr_in.form = "other" =>
            /\ rfind(addr_in.text, ":") = 0 => addr_result = None
            /\ ~AddrTailIsNumber => addr_result = None
            /\ addr_result # None =>
                addr_result.some[2] = parse_digits(AddrTail, 0, U16Max).some

\* C15 witness: a bracketed IPv6 address, whose ip holds ':' itself, has been
\* parsed to its ip without the brackets and its port.
C15_Witness ==
    /\ addr_pc = "done"
    /\ addr_in.form = "[ip]:port"
    /\ addr_in.text = <<"[", ":", ":", "1", "]", ":", "8", "0", "8", "0">>
    /\ addr_result = Some(<<<<":", ":", "1">>, 8080>>)

(***************************************************************************)
(* Claims about the connection enumerator (checked under SpecEnum)         *)
(***************************************************************************)
Enumerated == enum_result # None /\ enum_result.ok

\* The sockets the lines of the two listings report, in order.
SocketsOf(lines) ==
    LET reported == SelectSeq(lines, LAMBDA l : l.socket # None) IN
    [i \in 1..Len(reported) |-> reported[i].socket.some]
SocketsListed == SocketsOf(tool_tcp.lines) \o SocketsOf(tool_udp.lines)

\* C12: a row whose pid text is 0 or no number gives a record without an owner:
\* never pid Some(0), never an error, and so never a PortInfo with pid 0.
C12_NoOwnerForPidZero ==
    (enum_result # None /\ tool_tcp.spawned /\ tool_udp.spawned) =>
        /\ enum_result.ok
        /\ \A i \in 1..Len(enum_result.val) : enum_result.val[i].pid # Some(0)
        /\ LET listed == get_listening_ports(sys, enum_result).val IN
           \A k \in 1..Len(listed) : listed[k].pid # 0

\* A run in which the tool could not be used at all: it could not be started,
\* or it exited with a non-zero status and printed nothing.
Unusable(run) == ~run.spawned \/ (~run.success /\ run.lines = <<>>)

\* C13: when the listing tool cannot be used at all (not started, or a non-zero
\* exit with no output) get_network_connections returns NetworkError, never Ok
\* with an empty list.
C13_UnusableToolIsNetworkError ==
    (enum_result # None /\ Unusable(tool_tcp) /\ Unusable(tool_udp)) =>
        ~enum_result.ok /\ enum_result.err = "NetworkError"

\* C14: the records are exactly those of the rows that report a socket (enough
\* columns, a local address ending in a parseable :port), in the order of the
\* rows, and no row makes the enumeration fail.
C14_RecordsOfParseableRows ==
    (enum_result # None /\ tool_tcp.spawned /\ tool_udp.spawned) =>
        /\ enum_result.ok
        /\ Len(enum_result.val) = Len(SocketsListed)
        /\ \A i \in 1..Len(SocketsListed) :
            enum_result.val[i].local_port = SocketsListed[i].port

\* C16: every record, and so every PortInfo of get_listening_ports, has a local
\* port from 1 to 65535: the port texts "0" and "65536" give no record.
C16_LocalPortInRange ==
    Enumerated =>
        /\ \A i \in 1..Len(enum_result.val) : enum_result.val[i].local_port \in 1..U16Max
        /\ LET listed == get_listening_ports(sys, enum_result).val IN
           \A k \in 1..Len(listed) : listed[k].port \in 1..U16Max

(***************************************************************************)
(* Claims about the CLI kill flow (checked under SpecFlow)                 *)
(***************************************************************************)
FlowDone == flow_pc = "done"
ContainerFound == flow_in.docker /\ flow_in.container # None
Called(name) == \E i \in 1..Len(flow_log) : flow_log[i].call = name

\* C19: with container support, when a container publishes the port cmd_kill
\* takes the container path only: kill_process is not called, whatever the user
\* answers and whether or not the stop succeeds.
C19_ContainerPathOnly ==
    (FlowDone /\ ContainerFound) => ~Called("kill_process")

\* C19 witness: a container and a process were both found for the port, the
\* user agreed, the stop failed, and the flow ended with that error and without
\* a kill.
C19_Witness ==
    /\ FlowDone /\ ContainerFound
    /\ flow_in.port_info.ok /\ flow_in.port_info.val # None
    /\ ~flow_in.force /\ ~flow_in.dry_run
    /\ flow_in.answer.ok /\ flow_in.answer.text = <<"y", "e", "s", "\n">>
    /\ ~flow_in.stop.ok
    /\ Called("stop_container_by_name")
    /\ flow_result = flow_in.stop
    /\ ~Called("kill_process")

\* The lines that are the text "yes" once the whitespace around it is removed.
ExactYes == {<<"y", "e", "s", "\n">>, <<" ", " ", "y", "e", "s", " ", "\r", "\n">>}

\* C20: without force and dry_run, a critical container is stopped only when the
\* trimmed answer is exactly "yes"; "y", "Y", "YES", an empty answer or a failed
\* read leave it running and cmd_kill returns Ok.
C20_CriticalContainerNeedsYes ==
    (FlowDone /\ ContainerFound /\ ~flow_in.force /\ ~flow_in.dry_run
        /\ is_critical_container(flow_in.container.some)) =>
        /\ Called("stop_container_by_name")
            <=> (flow_in.answer.ok /\ flow_in.answer.text \in ExactYes)
        /\ ~Called("stop_container_by_name") => flow_result = Ok(Unit)

\* C20 witness: the answer "YES" was given for a container whose image is
\* critical once lowercased, and the container was left running.
C20_Witness ==
    /\ FlowDone /\ ContainerFound /\ ~flow_in.force /\ ~flow_in.dry_run
    /\ flow_in.container.some.image = <<"b", "i", "t", "n", "a", "m", "i", "/", "R", "e", "d", "i", "s", ":", "7">>
    /\ is_critical_container(flow_in.container.some)
    /\ flow_in.answer.ok /\ flow_in.answer.text = <<"Y", "E", "S", "\n">>
    /\ ~Called("stop_container_by_name")
    /\ flow_result = Ok(Unit)

\* C26: on Unix the value handed to kill(2) is a positive number equal to the
\* pid kill_process was called with, for every u32 pid: never 0, never negative.
C26_TargetIsPositivePid ==
    platform = "unix" =>
        \A i \in 1..Len(os_requests) :
            /\ os_requests[i].target > 0
            /\ as_u32(os_requests[i].target) = kill_calls[i].pid

\* The stop requests the kill flow issued.
StopRequests == {i \in 1..Len(flow_log) : flow_log[i].call = "stop_container_by_name"}

\* C24: every stop request of the kill flow names the container by the name
\* found at discovery, never by its id.
C24_StopByDiscoveredName ==
    FlowDone =>
        \A i \in StopRequests :
            /\ ContainerFound
            /\ flow_log[i].name = flow_in.container.some.name
            /\ flow_log[i].name # flow_in.container.some.id

\* C24 witness: the container my-db (id abc123def456) was stopped after the
\* answer "yes", and the one stop request carries "my-db".
C24_Witness ==
    /\ FlowDone /\ ContainerFound
    /\ flow_in.container.some.id = "abc123def456"
    /\ ~flow_in.force /\ ~flow_in.dry_run
    /\ flow_log = <<ReadLineCall, StopCall("my-db")>>
    /\ flow_result = flow_in.stop

(***************************************************************************)
(* Claims about the kill command (checked under SpecRun)                   *)
(***************************************************************************)
Handled == 1..Len(run_log)
Did(i, name) == \E k \in 1..Len(run_log[i].log) : run_log[i].log[k].call = name
ProcessPath(i) == run_log[i].in.container = None
RunEnded == run_pc \in {"returned", "exited"}

\* The answer read for port i, without the surrounding whitespace and in lower case.
AnswerWord(i) == to_lowercase(trim(run_log[i].in.answer.text))

\* The user approved the kill of the owner of port i: the full word for a port
\* that requires confirmation, "y" or "yes" for any other.
Approved(i) ==
    /\ run_log[i].in.answer.ok
    /\ IF requires_confirmation(run_log[i].in.port)
       THEN AnswerWord(i) = <<"y", "e", "s">>
       ELSE AnswerWord(i) \in {<<"y">>, <<"y", "e", "s">>}

\* C21: on the process path kill_process is called only when dry_run is false
\* and either --force was given, confirm is false in the configuration, or the
\* user approved ("yes" in full for a port that requires confirmation, "y" or
\* "yes" otherwise); and whenever an owner was found and those conditions hold it
\* is called. With dry_run nothing is killed, stopped or asked.
C21_KillOnlyWhenForcedOrApproved ==
    \A i \in Handled :
        /\ (ProcessPath(i) /\ Did(i, "kill_process")) =>
                /\ ~run_in.dry_run
                /\ run_in.force \/ ~run_in.confirm \/ Approved(i)
        /\ (ProcessPath(i) /\ run_log[i].in.port_info.ok
                /\ run_log[i].in.port_info.val # None /\ ~run_in.dry_run
                /\ (run_in.force \/ ~run_in.confirm \/ Approved(i))) =>
                Did(i, "kill_process")
        /\ run_in.dry_run => run_log[i].log = <<>>

\* C21 witness: without --force and with confirm = true, the owner of port 5432
\* (which requires confirmation) survived the answer "y", and the owner of port
\* 3000 was killed after the same answer.
C21_Witness ==
    /\ ~run_in.force /\ run_in.confirm /\ ~run_in.dry_run
    /\ run_in.ports = <<5432, 3000>>
    /\ Len(run_log) = 2
    /\ ProcessPath(1) /\ ProcessPath(2)
    /\ requires_confirmation(5432) /\ ~requires_confirmation(3000)
    /\ run_log[1].in.answer.text = <<"y", "\n">> /\ run_log[2].in.answer.text = <<"y", "\n">>
    /\ run_log[1].in.port_info.val # None
    /\ ~Did(1, "kill_process")
    /\ Did(2, "kill_process")

\* C21 witness, second case: confirm = false in the configuration killed the
\* owner of port 5432 with no line read.
C21_WitnessConfirmOff ==
    /\ ~run_in.force /\ ~run_in.confirm /\ ~run_in.dry_run
    /\ Len(run_log) >= 1 /\ ProcessPath(1)
    /\ run_log[1].in.port = 5432
    /\ run_log[1].log = <<KillCall(101, run_log[1].in.sigkill)>>

\* C22: a ProcessNotFound returned by the termination request is not a hard
\* failure for the kill command: run does not return it, main does not exit
\* with FAILURE because of it, and the remaining ports are handled.
C22_NotFoundIsBenign ==
    \A i \in Handled :
        (~run_log[i].result.ok /\ run_log[i].result.err = "ProcessNotFound") =>
            /\ run_result # Some(run_log[i].result)
            /\ exit_code # Some("FAILURE")
            /\ RunEnded => Len(run_log) = Len(run_in.ports)

\* C28: the ports are handled one at a time in the order given; a port that is
\* not in use, or whose kill was cancelled, or that was only dry-run, lets the
\* loop go on; the first Err of cmd_kill is what run returns, with no later port
\* handled; and the run that returned Ok handled every port.
C28_FirstErrorEndsTheCommand ==
    /\ Len(run_log) <= Len(run_in.ports)
    /\ \A i \in Handled :
        /\ run_log[i].in.port = run_in.ports[i]
        /\ run_log[i].result.ok => (i < Len(run_log) \/ run_pc = "loop" \/ i = Len(run_in.ports))
        /\ (~run_log[i].result.ok /\ run_log[i].result.err # "panic") =>
                /\ i = Len(run_log)
                /\ RunEnded
                /\ run_result = Some(run_log[i].result)
    /\ run_pc = "loop" => run_idx = Len(run_log) + 1
    /\ (RunEnded /\ run_result = Some(Ok(Unit))) =>
            /\ Len(run_log) = Len(run_in.ports)
            /\ \A i \in Handled : run_log[i].result.ok
    /\ exit_code # None => exit_code = Some(main_exit(run_result.some))

\* C28 witness: of two ports, the owner of the first was killed and the kill of
\* the second was refused by the OS; run returned that error, main exited with
\* FAILURE, and the first kill is still in the record.
C28_Witness ==
    /\ run_pc = "exited"
    /\ Len(run_in.ports) = 2 /\ Len(run_log) = 2
    /\ Did(1, "kill_process") /\ run_log[1].result = Ok(Unit)
    /\ Did(2, "kill_process")
    /\ ~run_log[2].result.ok /\ run_log[2].result.err = "PermissionDenied"
    /\ exit_code = Some("FAILURE")

\* C28 witness, second case: the first of two ports was not in use, the kill of
\* the second was cancelled, and the command ended with SUCCESS.
C28_WitnessGoesOn ==
    /\ run_pc = "exited"
    /\ Len(run_log) = 2
    /\ run_log[1].in.port_info = Ok(None) /\ ProcessPath(1)
    /\ ProcessPath(2) /\ run_log[2].log = <<ReadLineCall>>
    /\ exit_code = Some("SUCCESS")

(***************************************************************************)
(* Claims about the port arguments (checked under SpecArgs)                *)
(***************************************************************************)
ArgsDone == args_result # None

\* Argument i is an alias: a name is_port_or_alias accepts that is not a number
\* and that the configuration maps to a port.
IsAlias(i) ==
    /\ is_port_or_alias(args_in.args[i])
    /\ parse_u16(args_in.args[i]) = None
    /\ resolve_alias(args_in.args[i], args_in.config) # None

\* C30: when every argument is a port number or an alias of the configuration,
\* run resolves each alias to its port: the ports it goes on with are the
\* numbers and the ports of the aliases, in the order given; an alias with '-'
\* in it is not taken for a range.
C30_AliasesAreResolved ==
    (ArgsDone /\ \A i \in 1..Len(args_in.args) :
                    IsAlias(i) \/ parse_u16(args_in.args[i]) # None) =>
        /\ args_result.some.route \in {"cmd_kill", "cmd_find", "cmd_find_multiple"}
        /\ args_result.some.ports =
              [i \in 1..Len(args_in.args) |->
                  IF IsAlias(i) THEN args_in.config.aliases[args_in.args[i]]
                  ELSE parse_u16(args_in.args[i]).some]

(***************************************************************************)
(* Claims about the container lookup (checked under SpecLook)              *)
(***************************************************************************)
LookDone == look_result # None

\* The lookup could not get a listing: no runtime socket, no async runtime, no
\* connection, a failed listing, or a panic on the way.
LookupFailed ==
    \/ ~look_in.daemon.available
    \/ look_in.daemon.panics
    \/ ~look_in.daemon.runtime_built
    \/ ~look_in.daemon.connects
    \/ ~look_in.daemon.listing.ok

\* What cmd_kill does for the port when no container publishes it.
AsWithoutContainer ==
    cmd_kill_process([port |-> look_in.port, force |-> look_in.force,
                      dry_run |-> look_in.dry_run, sigkill |-> FALSE, docker |-> TRUE,
                      container |-> None, port_info |-> look_in.port_info,
                      answer |-> look_in.answer, os |-> "OK", stop |-> Ok(Unit)])

\* C23: get_container_for_port returns an Option whatever happens inside it, and
\* None whenever the lookup failed or panicked; cmd_kill then does exactly what
\* it does for a port no container publishes.
C23_LookupFailureIsNone ==
    LookDone =>
        /\ look_result.container = None \/ "some" \in DOMAIN look_result.container
        /\ LookupFailed =>
            /\ look_result.container = None
            /\ look_result.flow = AsWithoutContainer

\* C23 witness: the lookup panicked while the runtime was listing a container
\* that publishes the port, and the owner of the port was killed after "yes".
C23_Witness ==
    /\ LookDone
    /\ look_in.daemon.available /\ look_in.daemon.panics
    /\ look_in.daemon.connects /\ look_in.daemon.listing.ok
    /\ Len(look_in.daemon.listing.val) = 3 /\ look_in.port = 5432
    /\ ~look_in.force /\ ~look_in.dry_run
    /\ look_result.container = None
    /\ look_result.flow.log = <<ReadLineCall, KillCall(101, FALSE)>>

\* C23 witness, second case: with nothing failing the container is found, under
\* its name without the leading '/' and its id cut to 12 characters.
C23_WitnessFound ==
    /\ LookDone /\ ~LookupFailed /\ look_in.port = 5432
    /\ look_result.container # None
    /\ look_result.container.some.name = <<"m", "y", "-", "d", "b">>
    /\ look_result.container.some.id = <<"a", "b", "c", "1", "2", "3", "d", "e", "f", "4", "5", "6">>
    /\ look_result.container.some.ports = <<PortMapping(Some(5432), 5432, <<"t", "c", "p">>)>>

(***************************************************************************)
(* Claims about the interactive mode (checked under SpecIa)                *)
(***************************************************************************)

\* The indices (from 0) of the ports that match the stored filter, ascending:
\* every index when the filter is empty.
MatchingIndices ==
    InteractiveApp_apply_filter(iapp).filtered_indices

\* C27: whenever the main loop waits for a key, filtered_indices is the
\* ascending list of the indices of the ports that match the stored filter
\* (all of them when it is empty).
C27_FilteredIndicesMatchFilter ==
    ia_pc = "keys" => iapp.filtered_indices = MatchingIndices

(***************************************************************************)
(* Claims about the dashboard (checked under SpecTui)                      *)
(***************************************************************************)
KillSelectedDone == tui_last # None /\ tui_last.op = "kill_selected"
HadSelection == tui_last.before.selected < Len(tui_last.before.ports)
SelectedBefore == tui_last.before.ports[tui_last.before.selected + 1]
KillCalls == SelectSeq(tui_last.calls, LAMBDA c : c.call = "kill_process")
Refreshed == \E k \in 1..Len(tui_last.calls) : tui_last.calls[k] = GetListeningPortsCall

\* C25: kill_selected makes no call of kill_process for a selected entry whose
\* port requires confirmation: it changes the status message and nothing else.
\* For any other selected entry it calls kill_process once, with the pid of the
\* entry and force = false, and fetches the list again exactly when the kill
\* succeeded.
C25_CriticalNeverKilledFromDashboard ==
    (KillSelectedDone /\ HadSelection) =>
        IF requires_confirmation(SelectedBefore.port)
        THEN /\ tui_last.calls = <<>>
             /\ app.status_message # None
             /\ [app EXCEPT !.status_message = tui_last.before.status_message]
                    = tui_last.before
        ELSE /\ KillCalls = <<KillCall(SelectedBefore.pid, FALSE)>>
             /\ Refreshed <=> tui_last.kill.ok

\* C25 witness: with PostgreSQL (5432) selected in a list of three, kill_selected
\* made no call and left the list and the selection as they were.
C25_Witness ==
    /\ KillSelectedDone /\ HadSelection
    /\ SelectedBefore.port = 5432 /\ requires_confirmation(5432)
    /\ tui_last.before.selected = 2
    /\ tui_last.kill.ok
    /\ tui_last.calls = <<>>
    /\ Len(app.ports) = 3 /\ app.selected = 2
    /\ app.status_message = Some(<<"critical", 5432>>)

\* C25 witness, second case: the kill of the owner of port 3000 failed and the
\* list was not fetched again.
C25_WitnessFailedKill ==
    /\ KillSelectedDone /\ HadSelection
    /\ SelectedBefore.port = 3000
    /\ ~tui_last.kill.ok
    /\ tui_last.calls = <<KillCall(101, FALSE)>>
    /\ app.ports = tui_last.before.ports

\* C29: the selection of the dashboard is always valid (0 for an empty list,
\* below the length otherwise), and every entry listed is one of all_ports.
C29_SelectionValid ==
    app # None =>
        /\ app.ports = <<>> => app.selected = 0
        /\ app.ports # <<>> => app.selected < Len(app.ports)
        /\ \A i \in 1..Len(app.ports) :
            \E j \in 1..Len(app.all_ports) : app.ports[i] = app.all_ports[j]

\* C29 witness: the last of twelve rows was selected when its owner was killed,
\* the list fetched afterwards held one port, and the selection is row 0.
C29_Witness ==
    /\ KillSelectedDone
    /\ Len(tui_last.before.ports) = 12 /\ tui_last.before.selected = 11
    /\ tui_last.kill.ok
    /\ Len(app.all_ports) = 1 /\ Len(app.ports) = 1
    /\ app.selected = 0

\* C29 witness, second case: of twelve ports, the critical filter lists fewer
\* than eleven, and the last of them is selected.
C29_WitnessFiltered ==
    /\ app # None
    /\ Len(app.all_ports) = 12
    /\ app.critical_only
    /\ app.selected = Len(app.ports) - 1
    /\ Len(app.ports) < 11 /\ Len(app.ports) > 0

====
